---------------------------- MODULE Spec2Model ----------------------------
(***************************************************************************)
(* CrossGate (Foundry VTT module): the Mutator of src/unnamed/part_001,    *)
(* the Spawner of src/scripts/spawner.js and the Crosshairs of             *)
(* src/scripts/crosshairs.js, as state machines.                           *)
(*                                                                         *)
(* One actor (the entity) with its live field data, the token documents    *)
(* of the scene (the presentation surfaces), the actor's embedded Item     *)
(* collection and the 'crossgate'/'mutations' flag of the actor.  The      *)
(* document store is the external collaborator of the code: update(data)   *)
(* writes the given keys, getFlag returns the stored value and setFlag     *)
(* stores the value it is given; getProperty reads one key.                *)
(*                                                                         *)
(* A caller issues mutate / revert calls one after the other.  Every await *)
(* of the code is a step of its own, so that the order of the reads and    *)
(* writes of one call is the order of the source.                          *)
(***************************************************************************)
EXTENDS Integers, Sequences, FiniteSets, TLC

(***************************************************************************)
(* Bounds of the model.                                                    *)
(***************************************************************************)
MaxCalls == 4        \* calls the caller issues in one run
MaxDuplicates == 3   \* options.duplicates the caller asks of spawn

GridSize == 100      \* canvas.grid.size, in pixels
MaxEntries == 3        \* top-level keys of a raw update given to _prepareUpdates
MaxPointerEvents == 3  \* events the canvas sees during and after one show()
MaxOffset == 10      \* while (offset < 10) in _findValidPosition

AKeys == {"hp", "ac"}                          \* actor field paths
TKeys == {"texture.scaleX", "texture.scaleY"}  \* token field paths
Names == {"n1", "n2"}                          \* mutation names the caller uses
TokenIds == {"t1", "t2"}                       \* token documents of the scene

Null == "null"                                 \* JS null / undefined reference

(***************************************************************************)
(* JS objects with scalar values are functions on a finite set of keys.    *)
(***************************************************************************)
EmptyObj == [k \in {} |-> 0]

\* o[key] = value
ObjSet(o, key, value) ==
  [k \in (DOMAIN o) \cup {key} |-> IF k = key THEN value ELSE o[k]]

\* delete o[key]
ObjDelete(o, key) == [k \in (DOMAIN o) \ {key} |-> o[k]]

\* document.update(data): every key of data is written, the others are kept
UpdateFields(fields, data) ==
  [k \in DOMAIN fields |-> IF k \in DOMAIN data THEN data[k] ELSE fields[k]]

\* foundry.utils.getProperty(document, key)
getProperty(fields, key) == fields[key]


(***************************************************************************)
(* Update objects.  A raw update is the list of its top-level entries in   *)
(* the order of Object.entries; an entry is [k |-> key, v |-> value].      *)
(* A prepared update has the three sub-trees actor / token / embedded.     *)
(* An embedded sub-tree maps a collection name to [kind, data]: kind       *)
(* "array" (Array.isArray: records to create) or "object" (id -> data).    *)
(***************************************************************************)
EmptyUpdate == [actor |-> EmptyObj, token |-> EmptyObj, embedded |-> EmptyObj]

Entry(key, value) == [k |-> key, v |-> value]

EmbCreate(v) == ("Item" :> [kind |-> "array", data |-> <<v>>])
EmbUpdate(id, v) == ("Item" :> [kind |-> "object", data |-> (id :> v)])

\* The raw updates the caller passes: README "Simple transformation" with an
\* item added, single sub-trees, the scale alias, the old flat and actorData
\* formats, an update of an existing item, and the empty update.
RawUpdates ==
  << <<Entry("actor", ("hp" :> 2)), Entry("token", ("scale" :> 2)),
       Entry("embedded", EmbCreate(2))>>,
     <<Entry("actor", ("hp" :> 2))>>,
     <<Entry("actor", ("ac" :> 2))>>,
     <<Entry("actor", ("hp" :> 3 @@ "ac" :> 2))>>,
     <<Entry("token", ("scale" :> 2))>>,
     <<Entry("token", ("texture.scaleX" :> 3))>>,
     <<Entry("hp", 2)>>,
     <<Entry("actorData", ("ac" :> 2))>>,
     <<Entry("embedded", EmbUpdate(1, 2))>>,
     << >> >>

\* the update of a call that passes callbacks or permanent: all three sub-trees
FullUpdate == 1

\* for (const [key, value] of Object.entries(updates)) { ... }
RECURSIVE SeparateEntries(_, _)
SeparateEntries(entries, prepared) ==
  IF entries = << >> THEN prepared
  ELSE LET key == Head(entries).k
           value == Head(entries).v
           next ==
             IF key = "token" THEN [prepared EXCEPT !.token = value]
             ELSE IF key = "actor" THEN [prepared EXCEPT !.actor = value]
             ELSE IF key = "embedded" THEN [prepared EXCEPT !.embedded = value]
             ELSE IF key = "actorData" THEN [prepared EXCEPT !.actor = value]
             ELSE [prepared EXCEPT !.actor = ObjSet(prepared.actor, key, value)]
       IN SeparateEntries(Tail(entries), next)

\* Convert 'scale' to 'texture.scaleX' and 'texture.scaleY'
ConvertScale(token) ==
  IF "scale" \in DOMAIN token
    THEN ObjDelete(ObjSet(ObjSet(token, "texture.scaleX", token["scale"]),
                          "texture.scaleY", token["scale"]),
                   "scale")
    ELSE token

_prepareUpdates(updates) ==
  LET prepared == SeparateEntries(updates, EmptyUpdate)
  IN [prepared EXCEPT !.token = ConvertScale(prepared.token)]

(***************************************************************************)
(* Mutation records: the value of the flag is the insertion-ordered        *)
(* mapping name -> {original, updates, timestamp}, kept as the sequence    *)
(* of its entries (Object.keys order).  The timestamp is read by no        *)
(* operation and is left out.                                              *)
(***************************************************************************)
NoRecord == [name |-> Null, original |-> EmptyUpdate, updates |-> EmptyUpdate]

\* mutant: newest first
RecordNamesReversed(mutations) ==
  [i \in 1..Len(mutations) |-> mutations[Len(mutations) + 1 - i].name]

\* mutant: the names of the stored records, oldest only
RecordNamesOldest(mutations) ==
  IF mutations = << >> THEN << >> ELSE <<mutations[1].name>>

RecordNames(mutations) == [i \in 1..Len(mutations) |-> mutations[i].name]

HasRecord(mutations, name) == \E i \in 1..Len(mutations) : mutations[i].name = name

\* mutant: the first stored record, whatever its name
LookupFirst(mutations, name) ==
  IF mutations # << >> THEN mutations[1] ELSE NoRecord

\* mutations[name]
Lookup(mutations, name) ==
  IF HasRecord(mutations, name)
    THEN mutations[CHOOSE i \in 1..Len(mutations) : mutations[i].name = name]
    ELSE NoRecord

\* mutant: the mapping is replaced by the one new record
PutOnlyRecord(mutations, record) == <<record>>

\* mutant: the record is added as a new one, whatever its name
PutRecordAppended(mutations, record) == Append(mutations, record)

\* mutations[name] = record: an existing key keeps its place, a new one is last
PutRecord(mutations, record) ==
  IF HasRecord(mutations, record.name)
    THEN [i \in 1..Len(mutations) |->
            IF mutations[i].name = record.name THEN record ELSE mutations[i]]
    ELSE Append(mutations, record)

\* mutant: the whole mapping is cleared
DeleteAllRecords(mutations, name) == << >>

\* delete mutations[name]
RECURSIVE DeleteRecord(_, _)
DeleteRecord(mutations, name) ==
  IF mutations = << >> THEN << >>
  ELSE IF Head(mutations).name = name THEN DeleteRecord(Tail(mutations), name)
  ELSE <<Head(mutations)>> \o DeleteRecord(Tail(mutations), name)


(***************************************************************************)
(* State.                                                                  *)
(***************************************************************************)
VARIABLES
  actorData,     \* the actor's live fields: key -> value
  tokenData,     \* token id -> the token document's live fields
  activeTokens,  \* actor.getActiveTokens(), in order (token ids)
  items,         \* the actor's embedded Item collection: id -> value
  flags,         \* actor.getFlag('crossgate', 'mutations'): the stored records
  pc,            \* where the call in flight is suspended
  call,          \* arguments and local variables of the call in flight
  obs,           \* what the call in flight has been observed to do
  hist,          \* summaries of the completed calls, oldest first
  placeables,    \* canvas.tokens.placeables: the tokens drawn on the scene
  sp,            \* arguments and local variables of the spawn in flight
  xh,            \* the Crosshairs instance, its promise and the canvas it uses
  xh2            \* the instance of a second show() made while xh is shown

vars == <<actorData, tokenData, activeTokens, items, flags, pc, call, obs, hist,
          placeables, sp, xh, xh2>>

world == <<actorData, tokenData, activeTokens, items, flags>>

spawner == <<placeables, sp, xh, xh2>>

(***************************************************************************)
(* Targets and callbacks.                                                  *)
(***************************************************************************)
ActorTarget == [kind |-> "actor", id |-> Null]
NullTarget == [kind |-> "null", id |-> Null]
TokenDocTarget(t) == [kind |-> "tokenDoc", id |-> t]

\* the targets the caller passes: the actor, the document of its second token,
\* nothing, and a truthy value that is neither an Actor nor a token
Targets == {ActorTarget, TokenDocTarget("t2"), NullTarget,
            [kind |-> "other", id |-> Null]}

\* the target is an Actor or a token of one, so that actor is a document
IsEntity(target) == target.kind \in {"actor", "tokenDoc", "token"}

\* what the store does during a call: it rejects none of the writes, or the
\* actor update, or the token update, or the embedded request
Faults == {"none", "actor", "token", "embedded"}

\* callbacks = {}, {pre}, {post}, {pre, post}
Callbacks == {"none", "pre", "post", "both"}
HasPre(cb) == cb \in {"pre", "both"}
HasPost(cb) == cb \in {"post", "both"}

\* the values a pre callback may resolve to
PreResults == {"false", "undefined", "null", "zero", "empty", "true"}

\* mutant: the result of the pre callback is ignored
NeverAborts(r) == FALSE

\* mutant: the test is !shouldContinue
AbortsOnFalsy(r) == r \in {"false", "undefined", "null", "zero", "empty"}

\* shouldContinue === false
IsExactlyFalse(r) == r = "false"

_getToken(target) ==
  IF target.kind = "tokenDoc" THEN target.id
  ELSE IF target.kind = "token" THEN target.id
  ELSE IF target.kind = "actor"
    THEN (IF activeTokens # << >> THEN activeTokens[1] ELSE Null)
  ELSE Null

\* const actor = token?.actor || target;  if (!actor) ...
ResolvesActor(target) == _getToken(target) # Null \/ target.kind # "null"

(***************************************************************************)
(* The call in flight.                                                     *)
(***************************************************************************)
NoCall ==
  [op |-> "none", target |-> NullTarget, name |-> Null, permanent |-> FALSE,
   cb |-> "none", token |-> Null, prepared |-> EmptyUpdate,
   applying |-> EmptyUpdate, after |-> "none",
   mutations |-> << >>, mname |-> Null, mutation |-> NoRecord,
   mutationInfo |-> NoRecord, all |-> FALSE, names |-> << >>, result |-> "none",
   fault |-> "none", raw |-> << >>]

\* events: the callbacks invoked and the store writes issued, in order, each with
\* the mutation name it belongs to; preRes: what the last pre callback resolved
\* to; actor0 .. flags0: the store when the call was made
NoObs ==
  [events |-> << >>, preRes |-> "notcalled", postArg |-> NoRecord,
   actor0 |-> actorData, token0 |-> tokenData, items0 |-> items, flags0 |-> flags]

Event(e, n) == [e |-> e, n |-> n]

Log(e) == [obs EXCEPT !.events = Append(@, Event(e, call.mname))]

Count(events, e) == Cardinality({i \in 1..Len(events) : events[i].e = e})

\* what is kept of a completed call
Summary ==
  [op |-> call.op, name |-> call.name, permanent |-> call.permanent,
   result |-> call.result, target |-> call.target,
   plain |-> call.cb = "none" /\ call.fault = "none" /\ call.target = ActorTarget,
   updates |-> call.prepared,
   actor0 |-> obs.actor0, token0 |-> obs.token0, flags0 |-> obs.flags0]

\* the spawn in flight
\* no actor: the null that _getActor returns
NoActor == [id |-> Null]

\* no token, and no argument of dismiss
NoHandle == [kind |-> "none"]
NoDismiss == [isArray |-> TRUE, tokens |-> << >>, token |-> NoHandle]

NoPosition == [x |-> Null, y |-> Null, cancelled |-> FALSE]

NoSpawn ==
  [op |-> "none", actorNameOrId |-> Null, updates |-> EmptyObj, cb |-> "none",
   duplicates |-> 0, collision |-> FALSE, actor |-> NoActor,
   position |-> NoPosition, tokenData |-> EmptyObj, i |-> 0,
   spawnedTokens |-> << >>, preRes |-> "notcalled", events |-> << >>,
   notified |-> "none", result |-> << >>, placeables0 |-> << >>,
   crosshairs |-> EmptyObj, shown |-> << >>, failAt |-> 0, failKind |-> "none",
   queries |-> << >>, outcome |-> "none", dismissed |-> NoDismiss,
   deleted |-> << >>, found |-> NoPosition]

\* the values a coordinate of this.position and of the result of show() takes
JsNull == [type |-> "null"]

Number(v) == [type |-> "number", v |-> v]

\* the instance as the constructor leaves it, before show() returns its
\* promise, on a canvas with a grid and no controlled token
NoCrosshairs ==
  [config |-> [lockPosition |-> FALSE, rememberControlled |-> FALSE],
   cancelled |-> FALSE, position |-> [x |-> JsNull, y |-> JsNull],
   template |-> [exists |-> FALSE, x |-> 0, y |-> 0],
   controlled |-> {},
   listeners |-> {}, promise |-> "none",
   result |-> [x |-> JsNull, y |-> JsNull, cancelled |-> FALSE],
   gridType |-> 1, canvasControlled |-> {},
   controlled0 |-> {}, marker |-> [moved |-> FALSE, x |-> 0, y |-> 0],
   hover |-> [x |-> 0, y |-> 0], moves |-> 0, pressed |-> [x |-> 0, y |-> 0],
   destroyed |-> 0, resolves |-> 0, delivered |-> 0, trace |-> << >>,
   dispatched |-> 0, last |-> "none"]

Init ==
  /\ actorData = [k \in AKeys |-> 1]
  /\ tokenData = [t \in TokenIds |-> [k \in TKeys |-> IF t = "t1" THEN 1 ELSE 2]]
  /\ activeTokens \in {<< >>, <<"t1", "t2">>}
  /\ items = <<1>>
  /\ flags = << >>
  /\ pc = "idle"
  /\ call = NoCall
  /\ obs = NoObs
  /\ hist = << >>
  /\ placeables = [i \in 1..Len(activeTokens) |->
                     [id |-> activeTokens[i], x |-> (i - 1) * 3 * GridSize, y |-> 0,
                      w |-> GridSize, h |-> GridSize]]
  /\ sp = NoSpawn
  /\ xh = NoCrosshairs
  /\ xh2 = NoCrosshairs


(***************************************************************************)
(* The caller issues one call at a time, at most MaxCalls of them, and at  *)
(* most as many mutate calls as Names has names; the names being           *)
(* interchangeable, its first mutate is named n1.  At most one call passes *)
(* callbacks or permanent: it is the first or second call, it uses the     *)
(* full update, and at most one revert without callbacks follows it.       *)
(***************************************************************************)
Completed == IF pc = "done" THEN Append(hist, Summary) ELSE hist

Mutates(h) == Cardinality({i \in 1..Len(h) : h[i].op = "mutate"})

Plain(cb, permanent) == cb = "none" /\ ~permanent

Special(h) == {i \in 1..Len(h) : ~(h[i].plain /\ ~h[i].permanent)}

\* the call is made on the actor itself and the store rejects nothing
PlainStore(target, fault) == target = ActorTarget /\ fault = "none"

\* no call is in flight
Ready == pc \in {"idle", "done"}

\* the calls the caller makes on another target or with a rejecting store
Shape(cb, target, fault) ==
  /\ PlainStore(target, fault) \/ cb \in {"none", "both"}
  /\ target = ActorTarget \/ fault = "none"

MayCall(op, cb, permanent, target, fault) ==
  /\ Ready
  /\ Shape(cb, target, fault)
  /\ Len(Completed) < MaxCalls
  /\ IF Plain(cb, permanent) /\ PlainStore(target, fault)
       THEN \/ Special(Completed) = {}
            \/ Special(Completed) = {Len(Completed)} /\ op = "revert"
       ELSE Special(Completed) = {} /\ Len(Completed) < 2

MayMutate(ui, cb, name, permanent, target, fault) ==
  /\ Ready
  /\ (Plain(cb, permanent) /\ PlainStore(target, fault)) \/ ui = FullUpdate
  /\ MayCall("mutate", cb, permanent, target, fault)
  /\ Mutates(Completed) < Cardinality(Names)
  /\ Mutates(Completed) = 0 => name = "n1"

\* the arguments of the mutate calls the caller makes
MutateArgs ==
  {a \in [target : Targets, ui : 1..Len(RawUpdates), cb : Callbacks, name : Names,
          permanent : BOOLEAN, fault : Faults] :
     /\ Shape(a.cb, a.target, a.fault)
     /\ (Plain(a.cb, a.permanent) /\ PlainStore(a.target, a.fault)) \/ a.ui = FullUpdate}

\* the arguments of the revert calls the caller makes
RevertArgs ==
  {a \in [target : Targets, name : Names \cup {Null}, cb : Callbacks,
          fault : Faults] : Shape(a.cb, a.target, a.fault)}

(***************************************************************************)
(* _applyUpdates(actor, token, updates): the actor update, then the token  *)
(* update, then the embedded requests and Promise.all.                     *)
(***************************************************************************)
WritesActor(updates) == DOMAIN updates.actor # {}

WritesToken(token, updates) == token # Null /\ DOMAIN updates.token # {}

\* the first await of _applyUpdates
ApplyEntry(token, updates) ==
  IF WritesActor(updates) THEN "a_actor"
  ELSE IF WritesToken(token, updates) THEN "a_token"
  ELSE "a_embedded"

\* createEmbeddedDocuments / updateEmbeddedDocuments of one collection
ApplyCollection(docs, change) ==
  IF change.kind = "array" THEN docs \o change.data
  ELSE [i \in DOMAIN docs |->
          IF i \in DOMAIN change.data THEN change.data[i] ELSE docs[i]]

ApplyEmbeddedTo(docs, embedded) ==
  IF "Item" \in DOMAIN embedded THEN ApplyCollection(docs, embedded["Item"]) ELSE docs

\* mutant: the store takes every write
NeverRejects(op) == FALSE

\* the store call of this sub-operation throws: the store rejects it, or the
\* actor is no document and has no such method
Rejects(op) == call.fault = op \/ ~IsEntity(call.target)

\* try { await actor.update(updates.actor) } catch { ui.notifications.error }
ApplyActor ==
  /\ pc = "a_actor"
  /\ IF Rejects("actor")
       THEN actorData' = actorData /\ obs' = Log("actor.error")
       ELSE /\ actorData' = UpdateFields(actorData, call.applying.actor)
            /\ obs' = Log("actor")
  /\ pc' = IF WritesToken(call.token, call.applying) THEN "a_token" ELSE "a_embedded"
  /\ UNCHANGED <<tokenData, activeTokens, items, flags, call, hist, spawner>>

\* try { await token.update(updates.token) } catch { ui.notifications.error }
ApplyToken ==
  /\ pc = "a_token"
  /\ IF Rejects("token")
       THEN tokenData' = tokenData /\ obs' = Log("token.error")
       ELSE /\ tokenData' = [tokenData EXCEPT
                               ![call.token] = UpdateFields(@, call.applying.token)]
            /\ obs' = Log("token")
  /\ pc' = "a_embedded"
  /\ UNCHANGED <<actorData, activeTokens, items, flags, call, hist, spawner>>

\* the value mutate returns: mutationInfo, null for a permanent mutation
MutateResult == IF call.permanent THEN "null" ELSE "info"

\* the embedded requests are pushed without a catch: when one throws or is
\* rejected, await Promise.all(promises) throws and the call rejects
ApplyEmbedded ==
  /\ pc = "a_embedded"
  /\ IF DOMAIN call.applying.embedded # {} /\ Rejects("embedded")
       THEN /\ items' = items
            /\ obs' = Log("embedded.error")
            /\ pc' = "done"
            /\ call' = [call EXCEPT !.result = "rejected"]
       ELSE /\ items' = ApplyEmbeddedTo(items, call.applying.embedded)
            /\ obs' = IF DOMAIN call.applying.embedded # {} THEN Log("embedded") ELSE obs
            /\ IF call.after = "revert"
                 THEN pc' = "r_delete" /\ call' = call
                 ELSE IF HasPost(call.cb)
                   THEN pc' = "m_post" /\ call' = call
                   ELSE pc' = "done" /\ call' = [call EXCEPT !.result = MutateResult]
  /\ UNCHANGED <<actorData, tokenData, activeTokens, flags, hist, spawner>>


(***************************************************************************)
(* Mutator.mutate(target, updates, callbacks, options)                     *)
(***************************************************************************)
\* mutant: options.permanent is ignored
MutateAlwaysSaves(permanent, token, prepared) == "m_save"

\* where mutate goes once the pre callback let it continue
MutateContinue(permanent, token, prepared) ==
  IF permanent THEN ApplyEntry(token, prepared) ELSE "m_save"

MutateCall(target, ui, cb, name, permanent, fault) ==
  /\ MayMutate(ui, cb, name, permanent, target, fault)
  /\ hist' = Completed
  /\ obs' = IF ResolvesActor(target) THEN NoObs
            ELSE [NoObs EXCEPT !.events = <<Event("noActor.error", name)>>]
  /\ LET token == _getToken(target)
         prepared == _prepareUpdates(RawUpdates[ui])
         args == [NoCall EXCEPT !.op = "mutate", !.target = target, !.cb = cb,
                                !.name = name, !.mname = name,
                                !.permanent = permanent, !.fault = fault]
     IN IF ~ResolvesActor(target)
          THEN /\ call' = [args EXCEPT !.result = "null"]
               /\ pc' = "done"
          ELSE /\ call' = [args EXCEPT !.token = token, !.prepared = prepared,
                                       !.applying = prepared, !.after = "mutate"]
               /\ pc' = IF HasPre(cb) THEN "m_pre"
                        ELSE MutateContinue(permanent, token, prepared)
  /\ UNCHANGED <<world, spawner>>

MutatePre ==
  /\ pc = "m_pre"
  /\ \E r \in PreResults :
       /\ obs' = [Log("pre") EXCEPT !.preRes = r]
       /\ IF IsExactlyFalse(r)
            THEN pc' = "done" /\ call' = [call EXCEPT !.result = "null"]
            ELSE /\ pc' = MutateContinue(call.permanent, call.token, call.prepared)
                 /\ call' = call
  /\ UNCHANGED <<world, hist, spawner>>

\* mutant: the snapshot is taken from the update instead of the live documents
SavedUpdated(updates) ==
  [actor |-> updates.actor,
   token |-> IF activeTokens # << >> THEN updates.token ELSE EmptyObj,
   embedded |-> EmptyObj]

\* mutant: a key an older record already snapshotted keeps that older snapshot
SavedFromStack(updates) ==
  LET token == IF activeTokens # << >> THEN activeTokens[1] ELSE Null
      Older(part, k) == {i \in 1..Len(flags) : k \in DOMAIN flags[i].original[part]}
      Oldest(part, k) == flags[CHOOSE i \in Older(part, k) :
                                 \A j \in Older(part, k) : i <= j].original[part][k]
  IN [actor |-> [k \in DOMAIN updates.actor |->
                   IF Older("actor", k) # {} THEN Oldest("actor", k)
                   ELSE getProperty(actorData, k)],
      token |-> IF token # Null
                  THEN [k \in DOMAIN updates.token |->
                          IF Older("token", k) # {} THEN Oldest("token", k)
                          ELSE getProperty(tokenData[token], k)]
                  ELSE EmptyObj,
      embedded |-> EmptyObj]

\* actor.getActiveTokens()[0]?.document: the token the snapshot is read from
SnapshotToken == IF activeTokens # << >> THEN activeTokens[1] ELSE Null

\* mutant: the embedded part of the update is kept as the original
SavedWithEmbedded(updates) ==
  LET token == IF activeTokens # << >> THEN activeTokens[1] ELSE Null
  IN [actor |-> [k \in DOMAIN updates.actor |-> getProperty(actorData, k)],
      token |-> IF token # Null
                  THEN [k \in DOMAIN updates.token |-> getProperty(tokenData[token], k)]
                  ELSE EmptyObj,
      embedded |-> updates.embedded]

\* the values the record keeps as original
SavedOriginal(updates) ==
  LET token == SnapshotToken
  IN [actor |-> [k \in DOMAIN updates.actor |-> getProperty(actorData, k)],
      token |-> IF token # Null
                  THEN [k \in DOMAIN updates.token |-> getProperty(tokenData[token], k)]
                  ELSE EmptyObj,
      embedded |-> EmptyObj]

\* for an actor that is no document, actor.getActiveTokens() throws and the
\* call rejects
_saveMutationState ==
  /\ pc = "m_save"
  /\ IF ~IsEntity(call.target)
       THEN /\ flags' = flags
            /\ call' = [call EXCEPT !.result = "rejected"]
            /\ obs' = obs
            /\ pc' = "done"
       ELSE LET record == [name |-> call.name,
                           original |-> SavedOriginal(call.prepared),
                           updates |-> call.prepared]
            IN /\ flags' = PutRecord(flags, record)
               /\ call' = [call EXCEPT !.mutationInfo = record]
               /\ obs' = Log("flag")
               /\ pc' = ApplyEntry(call.token, call.prepared)
  /\ UNCHANGED <<actorData, tokenData, activeTokens, items, hist, spawner>>

MutatePost ==
  /\ pc = "m_post"
  /\ obs' = [Log("post") EXCEPT !.postArg = call.mutationInfo]
  /\ call' = [call EXCEPT !.result = MutateResult]
  /\ pc' = "done"
  /\ UNCHANGED <<world, hist, spawner>>

(***************************************************************************)
(* Mutator.revert(target, mutationName, callbacks)                         *)
(***************************************************************************)
\* revert(target, name) up to its first await, for a name that is given
RevertNamed(c, name) ==
  LET mutations == flags
      mutation == Lookup(mutations, name)
      token == _getToken(c.target)
  IN IF mutation = NoRecord
       THEN [pc |-> "return", res |-> "false", call |-> [c EXCEPT !.mname = name]]
       ELSE [pc |-> IF HasPre(c.cb) THEN "r_pre" ELSE ApplyEntry(token, mutation.original),
             res |-> "none",
             call |-> [c EXCEPT !.mname = name, !.token = token,
                                !.mutations = mutations, !.mutation = mutation,
                                !.applying = mutation.original, !.after = "revert"]]

\* mutant: every return of revert is "return true"
ReturnTrue(c, o, res) ==
  IF c.all
    THEN /\ pc' = "r_loop"
         /\ call' = c
         /\ obs' = [o EXCEPT !.events = Append(@, Event("true", c.mname))]
    ELSE /\ pc' = "done"
         /\ call' = [c EXCEPT !.result = "true"]
         /\ obs' = o

\* a revert body returns res: to the caller, or to the loop of revert-all
Return(c, o, res) ==
  IF c.all
    THEN /\ pc' = "r_loop"
         /\ call' = c
         /\ obs' = [o EXCEPT !.events = Append(@, Event(res, c.mname))]
    ELSE /\ pc' = "done"
         /\ call' = [c EXCEPT !.result = res]
         /\ obs' = o

Enter(step, o) ==
  IF step.pc = "return" THEN Return(step.call, o, step.res)
  ELSE pc' = step.pc /\ call' = step.call /\ obs' = o

\* the body of revert up to its first await
RevertBegin(target, name, cb, fault) ==
  /\ hist' = Completed
  /\ LET args == [NoCall EXCEPT !.op = "revert", !.target = target, !.cb = cb,
                                !.name = name, !.mname = name, !.fault = fault]
     IN IF ~ResolvesActor(target)
          THEN Return(args, [NoObs EXCEPT !.events = <<Event("noActor.error", name)>>],
                      "false")
          ELSE IF ~IsEntity(target)
            \* actor.getFlag is no function: the call rejects
            THEN pc' = "done" /\ call' = [args EXCEPT !.result = "rejected"]
                 /\ obs' = NoObs
          ELSE IF name # Null
            THEN Enter(RevertNamed(args, name), NoObs)
            ELSE /\ call' = [args EXCEPT !.all = TRUE, !.names = RecordNames(flags)]
                 /\ pc' = "r_loop"
                 /\ obs' = NoObs

RevertCall(target, name, cb, fault) ==
  /\ MayCall("revert", cb, FALSE, target, fault)
  /\ RevertBegin(target, name, cb, fault)
  /\ UNCHANGED <<world, spawner>>

\* for (const name of mutationNames) await this.revert(target, name, callbacks)
RevertLoop ==
  /\ pc = "r_loop"
  /\ IF call.names = << >>
       THEN /\ pc' = "done"
            /\ call' = [call EXCEPT !.result = "true"]
            /\ obs' = obs
       ELSE Enter(RevertNamed([call EXCEPT !.names = Tail(@)], Head(call.names)), obs)
  /\ UNCHANGED <<world, hist, spawner>>

RevertPre ==
  /\ pc = "r_pre"
  /\ \E r \in PreResults :
       LET o == [Log("pre") EXCEPT !.preRes = r]
       IN IF IsExactlyFalse(r)
            THEN Return(call, o, "false")
            ELSE /\ pc' = ApplyEntry(call.token, call.applying)
                 /\ call' = call
                 /\ obs' = o
  /\ UNCHANGED <<world, hist, spawner>>

\* delete mutations[mutationName]; await actor.setFlag(...)
RevertDelete ==
  /\ pc = "r_delete"
  /\ flags' = DeleteRecord(call.mutations, call.mname)
  /\ IF HasPost(call.cb)
       THEN pc' = "r_post" /\ call' = call /\ obs' = Log("flag")
       ELSE Return(call, Log("flag"), "true")
  /\ UNCHANGED <<actorData, tokenData, activeTokens, items, hist, spawner>>

RevertPost ==
  /\ pc = "r_post"
  /\ Return(call, [Log("post") EXCEPT !.postArg = call.mutation], "true")
  /\ UNCHANGED <<world, hist, spawner>>

(***************************************************************************)
(* The scene of Spawner: actors, grid and placeables.                      *)
(***************************************************************************)
\* game.actors: the actors of the world, each with its prototype token
WorldActors ==
  <<[id |-> "a1", name |-> "Goblin",
     prototypeToken |-> [_id |-> "proto", width |-> 1, height |-> 1,
                         actorLink |-> TRUE]]>>

\* game.packs: the entries of the Actor compendiums
PackActors ==
  <<[id |-> "p1", name |-> "Orc",
     prototypeToken |-> [_id |-> "proto", width |-> 1, height |-> 1,
                         actorLink |-> TRUE]]>>

\* the first of the indices hits, or 0: what find and getName settle on
FirstIndex(hits) ==
  IF hits = {} THEN 0 ELSE CHOOSE i \in hits : \A j \in hits : i <= j

_getActor(actorNameOrId) ==
  LET byId == FirstIndex({i \in 1..Len(WorldActors) :
                            WorldActors[i].id = actorNameOrId})
      byName == FirstIndex({i \in 1..Len(WorldActors) :
                              WorldActors[i].name = actorNameOrId})
      entry == FirstIndex({i \in 1..Len(PackActors) :
                             \/ PackActors[i].name = actorNameOrId
                             \/ PackActors[i].id = actorNameOrId})
  IN IF byId # 0 THEN WorldActors[byId]
     ELSE IF byName # 0 THEN WorldActors[byName]
     ELSE IF entry # 0 THEN PackActors[entry]
     ELSE NoActor

\* foundry.utils.mergeObject(original, other), for flat objects
mergeObject(original, other) ==
  [k \in DOMAIN original \cup DOMAIN other |->
     IF k \in DOMAIN other THEN other[k] ELSE original[k]]

\* the updates the caller passes to spawn
SpawnUpdates ==
  {EmptyObj,
   [x |-> 0, y |-> 0],
   [x |-> 0, y |-> 0, actorLink |-> TRUE],
   [x |-> GridSize]}

\* the points a click on the canvas resolves to
SnappedPoints == {[x |-> 0, y |-> 0], [x |-> GridSize, y |-> GridSize]}

\* the token object the canvas draws for a token document
Placeable(data) ==
  [id |-> data._id, x |-> data.x, y |-> data.y,
   w |-> data.width * GridSize, h |-> data.height * GridSize]

_prepareTokenData(actor, updates, position) ==
  LET prototypeData == ObjDelete(actor.prototypeToken, "_id")
  IN mergeObject(prototypeData,
       mergeObject([x |-> position.x, y |-> position.y, actorId |-> actor.id,
                    actorLink |-> FALSE],
                   updates))

\* mutant: the occupied regions are those of the scene as it was when spawn
\* was called
OccupiedAtCall == sp.placeables0

\* canvas.tokens.placeables, as _checkCollision reads it
Occupied == placeables

\* mutant: no two rectangles are ever found to intersect
NeverIntersects(a, b) == FALSE

_boundsIntersect(a, b) ==
  ~ \/ a.x + a.width < b.x
    \/ b.x + b.width < a.x
    \/ a.y + a.height < b.y
    \/ b.y + b.height < a.y

_checkCollision(position, width, height) ==
  LET bounds == [x |-> position.x, y |-> position.y,
                 width |-> width * GridSize, height |-> height * GridSize]
  IN \E i \in 1..Len(Occupied) :
       _boundsIntersect(bounds,
         [x |-> Occupied[i].x, y |-> Occupied[i].y,
          width |-> Occupied[i].w, height |-> Occupied[i].h])

\* value || 1
OrOne(obj, key) == IF key \in DOMAIN obj /\ obj[key] # 0 THEN obj[key] ELSE 1

\* mutant: the two loops are swapped, dy outer and dx inner
RingRowMajor(offset) ==
  LET side == 2 * offset + 1
      cells == [k \in 1..(side * side) |->
                  [dx |-> ((k - 1) % side) - offset,
                   dy |-> ((k - 1) \div side) - offset]]
      Abs(n) == IF n < 0 THEN 0 - n ELSE n
  IN SelectSeq(cells, LAMBDA c : Abs(c.dx) = offset \/ Abs(c.dy) = offset)

\* the cells the two for loops visit for one offset, in order: dx outer, dy
\* inner, kept when |dx| = offset or |dy| = offset
Ring(offset) ==
  LET side == 2 * offset + 1
      cells == [k \in 1..(side * side) |->
                  [dx |-> ((k - 1) \div side) - offset,
                   dy |-> ((k - 1) % side) - offset]]
      Abs(n) == IF n < 0 THEN 0 - n ELSE n
  IN SelectSeq(cells, LAMBDA c : Abs(c.dx) = offset \/ Abs(c.dy) = offset)

\* mutant: the search goes one ring further before it gives up
RECURSIVE SpiralBeyond(_, _, _, _)
SpiralBeyond(position, tokenWidth, tokenHeight, offset) ==
  IF ~(offset < MaxOffset + 1) THEN position
  ELSE LET tests == [k \in 1..Len(Ring(offset)) |->
                       [x |-> position.x + Ring(offset)[k].dx * GridSize,
                        y |-> position.y + Ring(offset)[k].dy * GridSize]]
           free == {k \in 1..Len(tests) :
                      ~_checkCollision(tests[k], tokenWidth, tokenHeight)}
       IN IF free # {}
            THEN tests[CHOOSE k \in free : \A j \in free : k <= j]
            ELSE SpiralBeyond(position, tokenWidth, tokenHeight, offset + 1)

RECURSIVE Spiral(_, _, _, _)
Spiral(position, tokenWidth, tokenHeight, offset) ==
  IF ~(offset < MaxOffset) THEN position
  ELSE LET tests == [k \in 1..Len(Ring(offset)) |->
                       [x |-> position.x + Ring(offset)[k].dx * GridSize,
                        y |-> position.y + Ring(offset)[k].dy * GridSize]]
           free == {k \in 1..Len(tests) :
                      ~_checkCollision(tests[k], tokenWidth, tokenHeight)}
       IN IF free # {}
            THEN tests[CHOOSE k \in free : \A j \in free : k <= j]
            ELSE Spiral(position, tokenWidth, tokenHeight, offset + 1)

_findValidPosition(position, payload) ==
  Spiral(position, OrOne(payload, "width"), OrOne(payload, "height"), 1)

(***************************************************************************)
(* Spawner.spawn(actorNameOrId, updates, callbacks, options)               *)
(***************************************************************************)
SpawnLog(s, e) == [s EXCEPT !.events = Append(@, e)]

\* mutant: the position is always asked of the selector
NeverHasOrigin(updates) == FALSE

\* updates.x !== undefined && updates.y !== undefined
HasOrigin(updates) == "x" \in DOMAIN updates /\ "y" \in DOMAIN updates

\* spawn resolves to tokens
SpawnReturn(s, tokens) ==
  /\ sp' = [s EXCEPT !.result = tokens, !.outcome = "resolved"]
  /\ pc' = "s_done"

\* mutant: the post callback is called whether or not a token was created
SpawnFinishAlways(s) ==
  IF HasPost(s.cb)
    THEN sp' = s /\ pc' = "s_post"
    ELSE SpawnReturn(s, s.spawnedTokens)

\* return spawnedTokens, after the post callback if there is one to call
SpawnFinish(s) ==
  IF HasPost(s.cb) /\ Len(s.spawnedTokens) > 0
    THEN sp' = s /\ pc' = "s_post"
    ELSE SpawnReturn(s, s.spawnedTokens)

\* for (let i = 0; i < options.duplicates; i++)
SpawnLoop(s) ==
  IF s.i < s.duplicates THEN sp' = s /\ pc' = "s_create" ELSE SpawnFinish(s)

\* the position is known: prepare the token data, then the pre callback
SpawnAt(s, position) ==
  LET payload == _prepareTokenData(s.actor, s.updates, position)
      s1 == [s EXCEPT !.position = position, !.tokenData = payload]
  IN IF HasPre(s.cb) THEN sp' = s1 /\ pc' = "s_pre" ELSE SpawnLoop(s1)

\* a: actorNameOrId, updates, cb (callbacks), duplicates, collision and
\* crosshairs (options), and what the scene store does with the creations:
\* it fails creation number failAt (0: none) in the way failKind
SpawnCall(a) ==
  /\ pc = "idle" /\ hist = << >>
  /\ LET actor == _getActor(a.actorNameOrId)
         args == [NoSpawn EXCEPT !.op = "spawn",
                                 !.actorNameOrId = a.actorNameOrId,
                                 !.updates = a.updates, !.cb = a.cb,
                                 !.duplicates = a.duplicates,
                                 !.collision = a.collision,
                                 !.crosshairs = a.crosshairs,
                                 !.failAt = a.failAt, !.failKind = a.failKind,
                                 !.actor = actor,
                                 !.placeables0 = placeables]
     IN IF actor = NoActor
          THEN SpawnReturn([args EXCEPT !.notified = "CROSSGATE.error.noActor"],
                           << >>)
          ELSE IF HasOrigin(a.updates)
            THEN SpawnAt(args, [x |-> a.updates.x, y |-> a.updates.y,
                                cancelled |-> FALSE])
            \* position = await Crosshairs.show(options.crosshairs)
            ELSE /\ sp' = [args EXCEPT !.shown = Append(@, a.crosshairs)]
                 /\ pc' = "s_select"
  /\ UNCHANGED <<world, placeables, call, obs, hist, xh, xh2>>

\* Crosshairs.show resolves by a pointerdown on the canvas
CrosshairsClick(point) ==
  /\ pc = "s_select"
  /\ SpawnAt(sp, [x |-> point.x, y |-> point.y, cancelled |-> FALSE])
  /\ UNCHANGED <<world, placeables, call, obs, hist, xh, xh2>>

\* Crosshairs.show resolves by a rightdown on the canvas
CrosshairsCancel ==
  /\ pc = "s_select"
  /\ SpawnReturn([sp EXCEPT
                    !.position = [x |-> Null, y |-> Null, cancelled |-> TRUE],
                    !.notified = "CROSSGATE.error.cancelled"],
                 << >>)
  /\ UNCHANGED <<world, placeables, call, obs, hist, xh, xh2>>

SpawnPre ==
  /\ pc = "s_pre"
  /\ \E r \in PreResults :
       LET s == [SpawnLog(sp, "pre") EXCEPT !.preRes = r]
       IN IF IsExactlyFalse(r)
            THEN SpawnReturn(s, << >>)
            ELSE SpawnLoop(s)
  /\ UNCHANGED <<world, placeables, call, obs, hist, xh, xh2>>

\* the ids the scene gives to the tokens it creates, in order
CreatedIds == <<"s1", "s2", "s3", "s4", "s5", "s6">>

\* one pass of the loop: the position of this copy, the in-place merge into
\* tokenData, and the creation request, which the scene answers with the
\* created token, with nothing, or by rejecting
SpawnCreate ==
  /\ pc = "s_create"
  /\ LET tested == sp.i > 0 /\ sp.collision
         spawnPosition ==
           IF tested THEN _findValidPosition(sp.position, sp.tokenData)
           ELSE sp.position
         finalTokenData ==
           mergeObject(sp.tokenData, [x |-> spawnPosition.x, y |-> spawnPosition.y])
         created == ObjSet(finalTokenData, "_id",
                           CreatedIds[Len(sp.spawnedTokens) + 1])
         s1 == [sp EXCEPT !.tokenData = finalTokenData, !.i = @ + 1,
                          !.queries = IF tested
                                        THEN Append(@, [i |-> sp.i + 1,
                                                        seen |-> Occupied])
                                        ELSE @]
         failed == sp.i + 1 = sp.failAt
     IN IF failed /\ sp.failKind = "rejected"
          THEN /\ placeables' = placeables
               /\ sp' = [SpawnLog(s1, "create.rejected") EXCEPT
                           !.outcome = "rejected"]
               /\ pc' = "s_done"
          ELSE IF failed
            THEN /\ placeables' = placeables
                 /\ SpawnLoop(SpawnLog(s1, "create.empty"))
            ELSE /\ placeables' = Append(placeables, Placeable(created))
                 /\ SpawnLoop([SpawnLog(s1, "create") EXCEPT
                                 !.spawnedTokens = Append(@, created)])
  /\ UNCHANGED <<world, call, obs, hist, xh, xh2>>

SpawnPost ==
  /\ pc = "s_post"
  /\ SpawnReturn(SpawnLog(sp, "post"), sp.spawnedTokens)
  /\ UNCHANGED <<world, placeables, call, obs, hist, xh, xh2>>

\* the arguments of the spawn calls the caller makes, and the creation the
\* scene fails
SpawnArgs ==
  {a \in [actorNameOrId : {"a1", "Goblin", "Orc", "Nobody"}, updates : SpawnUpdates, cb : Callbacks,
          duplicates : 0..MaxDuplicates, collision : BOOLEAN,
          crosshairs : {EmptyObj, [size |-> 2]}, failAt : 0..MaxDuplicates,
          failKind : {"none", "empty", "rejected"}] :
     /\ a.failAt = 0 <=> a.failKind = "none"
     /\ a.failAt <= a.duplicates
     /\ a.crosshairs # EmptyObj => ~HasOrigin(a.updates)
     /\ a.actorNameOrId # "Goblin"
          => a.cb = "none" /\ a.duplicates = 1 /\ a.failAt = 0
     /\ a.failAt # 0
          => a.cb \in {"none", "both"} /\ a.updates = [x |-> 0, y |-> 0]}

(***************************************************************************)
(* Spawner.dismiss(tokens)                                                 *)
(***************************************************************************)
\* a token document, a plain object with an _id, or an id
DocHandle(id) == [kind |-> "doc", id |-> id, _id |-> id]
DataHandle(id) == [kind |-> "data", _id |-> id]
IdHandle(id) == [kind |-> "id", value |-> id]

\* t.id || t._id || t
HandleId(t) ==
  IF "id" \in DOMAIN t /\ t.id # Null THEN t.id
  ELSE IF "_id" \in DOMAIN t /\ t._id # Null THEN t._id
  ELSE t.value

\* what the caller passes to dismiss after a spawn that returned tokens: the
\* array, its first token alone, the ids, the token data, or an empty array
DismissArgs(tokens) ==
  LET docs == [i \in 1..Len(tokens) |-> DocHandle(tokens[i]._id)]
      Array(handles) == [isArray |-> TRUE, tokens |-> handles, token |-> NoHandle]
  IN {Array(<< >>)}
     \cup IF tokens = << >> THEN {}
          ELSE {Array(docs),
                [isArray |-> FALSE, tokens |-> << >>, token |-> docs[1]],
                Array([i \in 1..Len(tokens) |-> IdHandle(tokens[i]._id)]),
                Array([i \in 1..Len(tokens) |-> DataHandle(tokens[i]._id)])}

\* mutant: one deletion request for each identifier
DeleteOneByOne(tokenIds) == [i \in 1..Len(tokenIds) |-> <<tokenIds[i]>>]

\* the deletion requests dismiss issues for the identifiers it extracted
DeletionRequests(tokenIds) == IF Len(tokenIds) = 0 THEN << >> ELSE <<tokenIds>>

\* canvas.scene.deleteEmbeddedDocuments('Token', tokenIds)
DeleteTokens(scene, tokenIds) ==
  SelectSeq(scene, LAMBDA t : \A i \in 1..Len(tokenIds) : t.id # tokenIds[i])

\* if (!Array.isArray(tokens)) tokens = [tokens]; map; filter
DismissIds(arg) ==
  LET tokens == IF arg.isArray THEN arg.tokens ELSE <<arg.token>>
  IN SelectSeq([i \in 1..Len(tokens) |-> HandleId(tokens[i])],
               LAMBDA id : id # Null)

dismiss ==
  /\ pc = "s_done" /\ sp.outcome = "resolved"
  /\ \E arg \in DismissArgs(sp.result) :
       LET requests == DeletionRequests(DismissIds(arg))
       IN /\ sp' = [sp EXCEPT !.op = "dismiss", !.dismissed = arg,
                              !.deleted = requests]
          /\ placeables' = IF requests = << >> THEN placeables
                           ELSE DeleteTokens(placeables, requests[1])
  /\ pc' = "d_done"
  /\ UNCHANGED <<world, call, obs, hist, xh, xh2>>

(***************************************************************************)
(* The specification.                                                      *)
(***************************************************************************)
Next ==
  \/ \E a \in MutateArgs :
       MutateCall(a.target, a.ui, a.cb, a.name, a.permanent, a.fault)
  \/ MutatePre
  \/ _saveMutationState
  \/ ApplyActor
  \/ ApplyToken
  \/ ApplyEmbedded
  \/ MutatePost
  \/ \E a \in RevertArgs : RevertCall(a.target, a.name, a.cb, a.fault)
  \/ RevertLoop
  \/ RevertPre
  \/ RevertDelete
  \/ RevertPost
  \/ \E a \in SpawnArgs : SpawnCall(a)
  \/ \E point \in SnappedPoints : CrosshairsClick(point)
  \/ CrosshairsCancel
  \/ SpawnPre
  \/ SpawnCreate
  \/ SpawnPost
  \/ dismiss

Spec == Init /\ [][Next]_vars

\* the calls of Spawner alone
(***************************************************************************)
(* Spawner._findValidPosition on its own: the scene and the arguments are  *)
(* drawn from bounded sets and the search is applied to them.              *)
(***************************************************************************)
\* the cells of the 3 x 3 block around (0, 0), in scan order
SolverCells ==
  [k \in 1..9 |-> [x |-> (((k - 1) \div 3) - 1) * GridSize,
                   y |-> (((k - 1) % 3) - 1) * GridSize]]

\* a scene with one 1 x 1 token on each of the cells numbered in S
SceneOf(S) ==
  LET chosen == SelectSeq([k \in 1..9 |-> k], LAMBDA k : k \in S)
  IN [i \in 1..Len(chosen) |->
        [id |-> CreatedIds[1], x |-> SolverCells[chosen[i]].x,
         y |-> SolverCells[chosen[i]].y, w |-> GridSize, h |-> GridSize]]

\* a scene with one token that covers every cell the search visits
DenseScene ==
  <<[id |-> CreatedIds[1], x |-> (0 - 2 * MaxOffset) * GridSize,
     y |-> (0 - 2 * MaxOffset) * GridSize,
     w |-> 4 * MaxOffset * GridSize, h |-> 4 * MaxOffset * GridSize]>>

\* a scene with one token that meets every cell of rings 1 to 9 around (0, 0)
\* and leaves cells of ring 10 free
CappedScene ==
  <<[id |-> CreatedIds[1], x |-> 0 - (17 * GridSize) \div 2,
     y |-> 0 - (17 * GridSize) \div 2,
     w |-> 18 * GridSize, h |-> 18 * GridSize]>>

SolverScenes ==
  {SceneOf(S) : S \in SUBSET (1..9)} \cup {DenseScene, CappedScene}

SolverOrigins ==
  {[x |-> 0, y |-> 0, cancelled |-> FALSE],
   [x |-> GridSize, y |-> 0, cancelled |-> FALSE]}

\* tokenData as far as the search reads it: width and height, either of
\* which may be missing
SolverPayloads ==
  {[width |-> 1, height |-> 1], [width |-> 2, height |-> 1], EmptyObj}

SolverInit ==
  /\ actorData = [k \in AKeys |-> 1]
  /\ tokenData = [t \in TokenIds |-> [k \in TKeys |-> IF t = "t1" THEN 1 ELSE 2]]
  /\ activeTokens = << >>
  /\ items = <<1>>
  /\ flags = << >>
  /\ pc = "idle"
  /\ call = NoCall
  /\ obs = NoObs
  /\ hist = << >>
  /\ placeables \in SolverScenes
  /\ sp = NoSpawn
  /\ xh = NoCrosshairs
  /\ xh2 = NoCrosshairs

\* spawnPosition = this._findValidPosition(spawnPosition, tokenData)
FindPosition ==
  /\ pc = "idle"
  /\ \E position \in SolverOrigins, payload \in SolverPayloads :
       LET found == _findValidPosition(position, payload)
       IN sp' = [sp EXCEPT !.op = "_findValidPosition",
                           !.position = position, !.tokenData = payload,
                           !.placeables0 = placeables,
                           !.found = [x |-> found.x, y |-> found.y,
                                      cancelled |-> FALSE]]
  /\ pc' = "f_done"
  /\ UNCHANGED <<world, placeables, call, obs, hist, xh, xh2>>

SolverNext == FindPosition

SolverSpec == SolverInit /\ [][SolverNext]_vars

(***************************************************************************)
(* Mutator._prepareUpdates on its own: the raw update is drawn from a      *)
(* bounded set and the function is applied to it.                          *)
(***************************************************************************)
\* the entries a raw update is made of: flat keys, the reserved sub-trees and
\* the old actorData format
EntryPool ==
  <<Entry("hp", 2), Entry("ac", 3),
    Entry("actor", ("ac" :> 2)), Entry("actor", ("hp" :> 3)),
    Entry("actorData", ("ac" :> 2)),
    Entry("token", ("scale" :> 2)),
    Entry("embedded", EmbCreate(2))>>

\* Object.entries(updates) of the raw updates: up to MaxEntries entries of
\* the pool in any order, no key twice
PrepareInputs ==
  {ix \in UNION {[1..n -> 1..Len(EntryPool)] : n \in 0..MaxEntries} :
     \A i, j \in DOMAIN ix :
       i # j => EntryPool[ix[i]].k # EntryPool[ix[j]].k}

PrepareInit ==
  /\ actorData = [k \in AKeys |-> 1]
  /\ tokenData = [t \in TokenIds |-> [k \in TKeys |-> IF t = "t1" THEN 1 ELSE 2]]
  /\ activeTokens = << >>
  /\ items = <<1>>
  /\ flags = << >>
  /\ pc = "idle"
  /\ obs = NoObs
  /\ hist = << >>
  /\ placeables = << >>
  /\ sp = NoSpawn
  /\ xh = NoCrosshairs
  /\ xh2 = NoCrosshairs
  /\ \E ix \in PrepareInputs :
       call = [NoCall EXCEPT !.raw = [i \in DOMAIN ix |-> EntryPool[ix[i]]]]

\* const preparedUpdates = this._prepareUpdates(updates, actor)
PrepareUpdates ==
  /\ pc = "idle"
  /\ call' = [call EXCEPT !.op = "_prepareUpdates",
                          !.prepared = _prepareUpdates(call.raw)]
  /\ pc' = "p_done"
  /\ UNCHANGED <<world, obs, hist, spawner>>

PrepareNext == PrepareUpdates

PrepareSpec == PrepareInit /\ [][PrepareNext]_vars

(***************************************************************************)
(* Crosshairs.show(config): the instance, its three listeners on           *)
(* canvas.stage, and the events the canvas dispatches.                     *)
(***************************************************************************)
\* config as the caller passes it, merged over the defaults
SelectorConfigs == [lockPosition : BOOLEAN, rememberControlled : BOOLEAN]

\* event.data.getLocalPosition(canvas.stage) of the events dispatched
RawPoints ==
  {[x |-> 120, y |-> 130], [x |-> 150, y |-> 150], [x |-> 340, y |-> 260]}

\* canvas.grid.getSnappedPoint(point, {mode: CENTER}): the centre of the cell
getSnappedPoint(point) ==
  [x |-> (point.x \div GridSize) * GridSize + GridSize \div 2,
   y |-> (point.y \div GridSize) * GridSize + GridSize \div 2]

\* mutant: the position is snapped whatever the configuration and the grid
AlwaysSnapped(self, event) == getSnappedPoint(event)

_getMousePosition(self, event) ==
  IF ~self.config.lockPosition /\ self.gridType # 0
    THEN getSnappedPoint(event)
    ELSE event

\* the ids of the tokens the canvas has
CanvasTokenIds == {placeables[i].id : i \in 1..Len(placeables)}

\* this.position = the point position
Point(position) == [x |-> Number(position.x), y |-> Number(position.y)]

Step(self, name) == [self EXCEPT !.trace = Append(@, name)]

_activate(self) ==
  [self EXCEPT
     !.controlled = IF self.config.rememberControlled
                      THEN self.canvasControlled ELSE @,
     !.controlled0 = self.canvasControlled,
     !.template = [exists |-> TRUE, x |-> 0, y |-> 0]]

_cleanup(self) ==
  LET off == Step([self EXCEPT !.listeners = {}], "off")
      gone == IF off.template.exists
                THEN Step([off EXCEPT !.template.exists = FALSE,
                                      !.destroyed = @ + 1], "destroy")
                ELSE off
  IN IF gone.config.rememberControlled /\ gone.controlled # {}
       THEN Step([gone EXCEPT !.canvasControlled =
                                gone.controlled \cap CanvasTokenIds], "restore")
       ELSE gone

\* resolve(value): settles the promise the first time it is called
Resolve(self, value) ==
  Step([self EXCEPT !.resolves = @ + 1,
                    !.promise = "fulfilled",
                    !.result = IF self.promise = "pending" THEN value ELSE @,
                    !.delivered = IF self.promise = "pending" THEN @ + 1 ELSE @],
       "resolve")

\* mutant: a move of the pointer selects the position
MoveSelects(self, event) ==
  LET position == _getMousePosition(self, event)
  IN Resolve(_cleanup(self),
             [x |-> Number(position.x), y |-> Number(position.y),
              cancelled |-> FALSE])

_onMouseMove(self, event) ==
  LET position == _getMousePosition(self, event)
  IN IF self.template.exists
       THEN [self EXCEPT !.template.x = position.x, !.template.y = position.y,
                         !.marker = [moved |-> TRUE, x |-> position.x,
                                     y |-> position.y],
                         !.hover = event, !.moves = @ + 1]
       ELSE self

\* mutant: the position is taken before the listeners and the template go
ClickCapturesFirst(self, event) ==
  LET position == _getMousePosition(self, event)
      taken == Step([self EXCEPT !.position = Point(position),
                                 !.pressed = event],
                    "capture")
  IN Resolve(_cleanup(taken),
             [x |-> Number(position.x), y |-> Number(position.y),
              cancelled |-> FALSE])

clickHandler(self, event) ==
  LET clean == _cleanup(self)
      position == _getMousePosition(clean, event)
      taken == Step([clean EXCEPT !.position = Point(position),
                                  !.pressed = event],
                    "capture")
  IN Resolve(taken, [x |-> Number(position.x), y |-> Number(position.y),
                     cancelled |-> FALSE])

\* mutant: a cancelled selection still reports where the pointer was
CancelKeepsPosition(self, event) ==
  LET clean == _cleanup(self)
  IN Resolve([clean EXCEPT !.cancelled = TRUE],
             [x |-> Number(event.x), y |-> Number(event.y),
              cancelled |-> TRUE])

rightClickHandler(self, event) ==
  LET clean == _cleanup(self)
  IN Resolve([clean EXCEPT !.cancelled = TRUE],
             [x |-> JsNull, y |-> JsNull, cancelled |-> TRUE])

\* the canvas dispatches one more event, or the user acts on it once more
Dispatched(self, name) == [self EXCEPT !.dispatched = @ + 1, !.last = name]

MayDispatch == xh.promise # "none" /\ xh.dispatched < MaxPointerEvents

\* Crosshairs.show(config): new Crosshairs(config), then show() on it
Show ==
  /\ xh.promise = "none"
  /\ \E config \in SelectorConfigs :
       xh' = [_activate([xh EXCEPT !.config = config]) EXCEPT
                !.listeners = {"pointermove", "pointerdown", "rightdown"},
                !.promise = "pending", !.last = "show"]
  /\ UNCHANGED <<world, pc, call, obs, hist, placeables, sp, xh2>>

\* canvas.stage emits pointermove
PointerMove ==
  /\ MayDispatch
  /\ \E event \in RawPoints :
       xh' = Dispatched(IF "pointermove" \in xh.listeners
                          THEN _onMouseMove(xh, event) ELSE xh,
                        "pointermove")
  /\ UNCHANGED <<world, pc, call, obs, hist, placeables, sp, xh2>>

\* canvas.stage emits pointerdown
PointerDown ==
  /\ MayDispatch
  /\ \E event \in RawPoints :
       xh' = Dispatched(IF "pointerdown" \in xh.listeners
                          THEN clickHandler(xh, event) ELSE xh,
                        "pointerdown")
  /\ UNCHANGED <<world, pc, call, obs, hist, placeables, sp, xh2>>

\* canvas.stage emits rightdown
RightDown ==
  /\ MayDispatch
  /\ \E event \in RawPoints :
       xh' = Dispatched(IF "rightdown" \in xh.listeners
                          THEN rightClickHandler(xh, event) ELSE xh,
                        "rightdown")
  /\ UNCHANGED <<world, pc, call, obs, hist, placeables, sp, xh2>>

\* the user controls other tokens while the crosshairs are shown
ControlTokens ==
  /\ MayDispatch /\ xh.promise = "pending"
  /\ \E ids \in SUBSET CanvasTokenIds :
       /\ ids # xh.canvasControlled
       /\ xh' = Dispatched([xh EXCEPT !.canvasControlled = ids], "control")
  /\ UNCHANGED <<world, pc, call, obs, hist, placeables, sp, xh2>>

\* a token is deleted from the scene while the crosshairs are shown
DeleteToken ==
  /\ MayDispatch /\ xh.promise = "pending"
  /\ \E id \in CanvasTokenIds :
       /\ placeables' = DeleteTokens(placeables, <<id>>)
       /\ xh' = Dispatched([xh EXCEPT !.canvasControlled = @ \ {id}], "delete")
  /\ UNCHANGED <<world, pc, call, obs, hist, sp, xh2>>

SelectorInit ==
  /\ actorData = [k \in AKeys |-> 1]
  /\ tokenData = [t \in TokenIds |-> [k \in TKeys |-> IF t = "t1" THEN 1 ELSE 2]]
  /\ activeTokens = <<"t1", "t2">>
  /\ items = <<1>>
  /\ flags = << >>
  /\ pc = "idle"
  /\ call = NoCall
  /\ obs = NoObs
  /\ hist = << >>
  /\ placeables = [i \in 1..Len(activeTokens) |->
                     [id |-> activeTokens[i], x |-> (i - 1) * 3 * GridSize, y |-> 0,
                      w |-> GridSize, h |-> GridSize]]
  /\ sp = NoSpawn
  /\ \E type \in {0, 1}, ids \in SUBSET {"t1", "t2"} :
       xh = [NoCrosshairs EXCEPT !.gridType = type, !.canvasControlled = ids]
  /\ xh2 = NoCrosshairs

SelectorNext ==
  \/ Show
  \/ PointerMove
  \/ PointerDown
  \/ RightDown
  \/ ControlTokens
  \/ DeleteToken

SelectorSpec == SelectorInit /\ [][SelectorNext]_vars

(***************************************************************************)
(* Two Crosshairs.show(config) made without awaiting the first: two        *)
(* instances, each with its own three closures on canvas.stage, which      *)
(* calls the listeners of an event in the order they were registered.      *)
(***************************************************************************)
\* canvas.stage calls the listener the instance registered for the event of
\* that name, if it still has one
Deliver(self, name, event) ==
  IF name \notin self.listeners THEN self
  ELSE IF name = "pointermove" THEN _onMouseMove(self, event)
  ELSE IF name = "pointerdown" THEN clickHandler(self, event)
  ELSE rightClickHandler(self, event)

\* mutant: the second show() is made on the instance of the first, whose
\* this.template the handler of the first has already destroyed
SecondOnSameInstance(first, waiting) ==
  [waiting EXCEPT !.canvasControlled = first.canvasControlled,
                  !.template = first.template]

\* the second instance when its listener is called: on the canvas as the
\* listener of the first left it
Second(first, waiting) ==
  [waiting EXCEPT !.canvasControlled = first.canvasControlled]

\* canvas.stage emits the event: the listeners of the first instance, then
\* those of the second
StageEmit(name, event) ==
  LET first == Deliver(xh, name, event)
      second == Deliver(Second(first, xh2), name, event)
  IN [first |-> Dispatched([first EXCEPT !.canvasControlled =
                                           second.canvasControlled], name),
      second |-> Dispatched(second, name)]

\* canvas.stage emits pointermove
PairPointerMove ==
  /\ MayDispatch
  /\ \E event \in RawPoints :
       /\ xh' = StageEmit("pointermove", event).first
       /\ xh2' = StageEmit("pointermove", event).second
  /\ UNCHANGED <<world, pc, call, obs, hist, placeables, sp>>

\* canvas.stage emits pointerdown
PairPointerDown ==
  /\ MayDispatch
  /\ \E event \in RawPoints :
       /\ xh' = StageEmit("pointerdown", event).first
       /\ xh2' = StageEmit("pointerdown", event).second
  /\ UNCHANGED <<world, pc, call, obs, hist, placeables, sp>>

\* canvas.stage emits rightdown
PairRightDown ==
  /\ MayDispatch
  /\ \E event \in RawPoints :
       /\ xh' = StageEmit("rightdown", event).first
       /\ xh2' = StageEmit("rightdown", event).second
  /\ UNCHANGED <<world, pc, call, obs, hist, placeables, sp>>

\* a second Crosshairs.show(config), made after the first
ShowSecond ==
  /\ xh.promise # "none" /\ xh2.promise = "none"
  /\ \E config \in SelectorConfigs :
       xh2' = [_activate([xh2 EXCEPT !.config = config,
                                     !.gridType = xh.gridType,
                                     !.canvasControlled = xh.canvasControlled])
                 EXCEPT !.listeners = {"pointermove", "pointerdown", "rightdown"},
                        !.promise = "pending", !.last = "show"]
  /\ UNCHANGED <<world, pc, call, obs, hist, placeables, sp, xh>>

PairNext ==
  \/ Show
  \/ ShowSecond
  \/ PairPointerMove
  \/ PairPointerDown
  \/ PairRightDown

PairSpec == SelectorInit /\ [][PairNext]_vars

(***************************************************************************)
(* Callbacks that call the mutator themselves.  revert awaits its pre      *)
(* callback after it has read the stored mapping and its post callback     *)
(* after it has written it back; a mutate or revert the callback makes and *)
(* awaits runs to its end while the outer revert is suspended.             *)
(***************************************************************************)
\* the calls a callback makes in one invocation of a revert
MaxHooks == 2

\* the updates a callback passes to mutate (entries of RawUpdates)
HookUpdates == {2, 3}

\* await Mutator.mutate(actor, updates, {}, {name}) or
\* await Mutator.revert(actor, name), made by a callback
HookCalls ==
  {h \in [kind : {"mutate", "revert"}, name : Names, ui : HookUpdates] :
     h.kind = "revert" => h.ui = 2}

\* the store after the call of the callback has run to its end
HookWorld(h) ==
  LET token == _getToken(ActorTarget)
      prepared == _prepareUpdates(RawUpdates[h.ui])
      record == [name |-> h.name, original |-> SavedOriginal(prepared),
                 updates |-> prepared]
      applying == IF h.kind = "mutate" THEN prepared
                  ELSE Lookup(flags, h.name).original
  IN [actorData |-> UpdateFields(actorData, applying.actor),
      tokenData |-> IF WritesToken(token, applying)
                      THEN [tokenData EXCEPT ![token] = UpdateFields(@, applying.token)]
                      ELSE tokenData,
      items |-> ApplyEmbeddedTo(items, applying.embedded),
      flags |-> IF h.kind = "mutate" THEN PutRecord(flags, record)
                ELSE DeleteRecord(flags, h.name)]

\* the callback makes the call, on the actor of the revert in flight
Hook(h) ==
  /\ call.op = "revert" /\ call.target = ActorTarget
  /\ Cardinality({i \in 1..Len(obs.events) : obs.events[i].e \in {"hook.mutate", "hook.revert"}}) < MaxHooks
  /\ h.kind = "revert" => HasRecord(flags, h.name) /\ h.name # call.mname
  /\ actorData' = HookWorld(h).actorData
  /\ tokenData' = HookWorld(h).tokenData
  /\ items' = HookWorld(h).items
  /\ flags' = HookWorld(h).flags

HookLog(e, h) ==
  [obs EXCEPT !.events = @ \o <<Event(e, call.mname),
                                Event(IF h.kind = "mutate" THEN "hook.mutate"
                                      ELSE "hook.revert", h.name)>>]

\* await callbacks.pre(mutation, actor, token), the callback calling the
\* mutator and resolving to undefined
RevertPreHook ==
  /\ pc = "r_pre"
  /\ \E h \in HookCalls :
       /\ Hook(h)
       /\ obs' = [HookLog("pre", h) EXCEPT !.preRes = "undefined"]
  /\ pc' = ApplyEntry(call.token, call.applying)
  /\ UNCHANGED <<activeTokens, call, hist, spawner>>

\* await callbacks.post(mutation, actor, token), the callback calling the
\* mutator
RevertPostHook ==
  /\ pc = "r_post"
  /\ \E h \in HookCalls :
       /\ Hook(h)
       /\ Return(call, [HookLog("post", h) EXCEPT !.postArg = call.mutation], "true")
  /\ UNCHANGED <<activeTokens, hist, spawner>>

\* revert(actor, name, {pre, post}) after mutate calls without callbacks
HookedRevertCall(name) ==
  /\ Ready /\ Len(Completed) < MaxCalls
  /\ Special(Completed) = {}
  /\ RevertBegin(ActorTarget, name, "both", "none")
  /\ UNCHANGED <<world, spawner>>

HookNext ==
  \* the mutate calls of the caller: on the actor, without callbacks
  \/ \E a \in {b \in MutateArgs : /\ Plain(b.cb, b.permanent)
                                  /\ PlainStore(b.target, b.fault)
                                  /\ b.ui \in {2, 3, 5}} :
       MutateCall(a.target, a.ui, a.cb, a.name, a.permanent, a.fault)
  \/ _saveMutationState
  \/ ApplyActor
  \/ ApplyToken
  \/ ApplyEmbedded
  \/ \E name \in Names \cup {Null} : HookedRevertCall(name)
  \/ RevertLoop
  \/ RevertPre
  \/ RevertPreHook
  \/ RevertDelete
  \/ RevertPost
  \/ RevertPostHook

HookSpec == Init /\ [][HookNext]_vars

SpawnNext ==
  \/ \E a \in SpawnArgs : SpawnCall(a)
  \/ \E point \in SnappedPoints : CrosshairsClick(point)
  \/ CrosshairsCancel
  \/ SpawnPre
  \/ SpawnCreate
  \/ SpawnPost
  \/ dismiss

SpawnSpec == Init /\ [][SpawnNext]_vars


(***************************************************************************)
(* Mutator.hasMutation(target, mutationName) and Mutator.getMutations      *)
(***************************************************************************)
\* actor instanceof Actor, for actor = token?.actor || target
IsActor(target) == _getToken(target) # Null \/ target.kind = "actor"

hasMutation(target, mutationName) ==
  IF ~ResolvesActor(target) THEN FALSE
  ELSE IF ~IsActor(target) THEN FALSE
  ELSE IF mutationName # Null THEN Lookup(flags, mutationName) # NoRecord
  ELSE Len(flags) > 0

getMutations(target) ==
  IF ~ResolvesActor(target) THEN << >>
  ELSE IF ~IsActor(target) THEN << >>
  ELSE flags

(***************************************************************************)
(* Vocabulary of the properties.                                           *)
(***************************************************************************)
Done(op) == pc = "done" /\ call.op = op

\* the call in flight is made on an entity, and the store rejects none of its
\* writes
OnEntity == IsEntity(call.target)
Normal == OnEntity /\ call.fault = "none"

Last == hist[Len(hist)]

\* a completed call mutate(e, u, {}, {name: n}) that stored a record
PlainMutate(c) ==
  /\ c.op = "mutate" /\ c.plain /\ ~c.permanent
  /\ c.target = ActorTarget /\ c.result = "info"

\* a call revert(e, n) without callbacks
PlainRevert(c, n) ==
  c.op = "revert" /\ c.plain /\ c.name = n /\ c.target = ActorTarget

\* every actor and token field among the keys of u has the value it has in
\* the snapshot (a, t)
FieldsAsIn(u, a, t) ==
  /\ \A k \in DOMAIN u.actor : actorData[k] = a[k]
  /\ \A id \in TokenIds : \A k \in DOMAIN u.token : tokenData[id][k] = t[id][k]

\* u changed a field of the snapshot (a, t) that the entity shows
Changes(u, a, t) ==
  \/ \E k \in DOMAIN u.actor : u.actor[k] # a[k]
  \/ activeTokens # << >> /\ \E k \in DOMAIN u.token : u.token[k] # t[activeTokens[1]][k]

WorldAsBefore ==
  /\ actorData = obs.actor0 /\ tokenData = obs.token0
  /\ items = obs.items0 /\ flags = obs.flags0

\* C1: mutate(e, u, {}, {name: n}) for a name n with no stored record, followed
\* by revert(e, n), leaves every field touched by u at its value before the
\* mutate, and n is no key of getMutations(e).
C1_MutateThenRevertRestores ==
  (/\ Done("revert") /\ hist # << >>
   /\ PlainMutate(Last) /\ ~HasRecord(Last.flags0, Last.name)
   /\ PlainRevert(Summary, Last.name))
  => /\ call.result = "true"
     /\ FieldsAsIn(Last.updates, Last.actor0, Last.token0)
     /\ ~HasRecord(getMutations(ActorTarget), Last.name)

C1_Witness ==
  /\ Done("revert") /\ hist # << >>
  /\ PlainMutate(Last) /\ ~HasRecord(Last.flags0, Last.name)
  /\ PlainRevert(Summary, Last.name)
  /\ \E k \in DOMAIN Last.updates.actor : Last.updates.actor[k] # Last.actor0[k]
  /\ activeTokens # << >>
  /\ \E k \in DOMAIN Last.updates.token :
       Last.updates.token[k] # Last.token0[activeTokens[1]][k]
  /\ Last.flags0 # << >>


\* C2: revert(e, n) for a name n that has no stored record (never applied, or
\* already reverted) returns false at once, changes no entity field, no
\* presentation field and no stored record, and invokes neither callback.
C2_RevertMissingIsNoOp ==
  (/\ call.op = "revert" /\ OnEntity
   /\ call.name # Null /\ ~HasRecord(obs.flags0, call.name))
  => /\ pc = "done"
     /\ call.result = "false"
     /\ WorldAsBefore
     /\ obs.events = << >>

C2_Witness ==
  /\ Done("revert") /\ OnEntity /\ call.name # Null /\ ~HasRecord(obs.flags0, call.name)
  /\ call.cb = "both"
  /\ obs.flags0 # << >>

\* the key sets of two updates are disjoint
Disjoint(u1, u2) ==
  /\ DOMAIN u1.actor \cap DOMAIN u2.actor = {}
  /\ DOMAIN u1.token \cap DOMAIN u2.token = {}

\* the last four calls are mutate n1, mutate n2, revert n2, revert n1
Stacked ==
  /\ Done("revert") /\ Len(hist) >= 3
  /\ LET a == hist[Len(hist) - 2]
         b == hist[Len(hist) - 1]
     IN /\ PlainMutate(a) /\ PlainMutate(b) /\ a.name # b.name
        /\ PlainRevert(Last, b.name) /\ PlainRevert(Summary, a.name)

\* C3: mutations n1 and then n2 with disjoint key sets, reverted n2 first and
\* then n1, leave every field touched by either at its value before n1, and
\* leave no record stored (none was stored before n1).
C3_StackedRevertRestores ==
  (/\ Stacked /\ hist[Len(hist) - 2].flags0 = << >>
   /\ Disjoint(hist[Len(hist) - 2].updates, hist[Len(hist) - 1].updates))
  => LET a == hist[Len(hist) - 2]
         b == hist[Len(hist) - 1]
     IN /\ Last.result = "true" /\ call.result = "true"
        /\ FieldsAsIn(a.updates, a.actor0, a.token0)
        /\ FieldsAsIn(b.updates, a.actor0, a.token0)
        /\ getMutations(ActorTarget) = << >>

C3_Witness ==
  /\ Stacked /\ Disjoint(hist[Len(hist) - 2].updates, hist[Len(hist) - 1].updates)
  /\ LET a == hist[Len(hist) - 2]
         b == hist[Len(hist) - 1]
     IN /\ Changes(a.updates, a.actor0, a.token0)
        /\ Changes(b.updates, b.actor0, b.token0)
        /\ DOMAIN a.updates.actor # {} /\ DOMAIN b.updates.actor # {}

\* the last three calls are mutate n1, mutate n2, revert n2
Overlapped ==
  /\ Done("revert") /\ Len(hist) >= 2
  /\ LET a == hist[Len(hist) - 1]
     IN /\ PlainMutate(a) /\ PlainMutate(Last) /\ a.name # Last.name
        /\ PlainRevert(Summary, Last.name)

\* C4: when n1 and then n2 are applied and both write key k, revert(e, n2)
\* alone sets k to the value n1 wrote, and the record of n1 stays stored
\* unchanged.
C4_OverlapRestoresFirstWrite ==
  Overlapped
  => LET a == hist[Len(hist) - 1]
     IN /\ call.result = "true"
        /\ \A k \in DOMAIN a.updates.actor \cap DOMAIN Last.updates.actor :
             actorData[k] = a.updates.actor[k]
        /\ activeTokens # << >> =>
             \A k \in DOMAIN a.updates.token \cap DOMAIN Last.updates.token :
               tokenData[activeTokens[1]][k] = a.updates.token[k]
        /\ Lookup(flags, a.name) # NoRecord
        /\ Lookup(flags, a.name) = Lookup(Last.flags0, a.name)
        /\ Lookup(flags, a.name).updates = a.updates

C4_Witness ==
  /\ Overlapped
  /\ LET a == hist[Len(hist) - 1]
     IN \E k \in DOMAIN a.updates.actor \cap DOMAIN Last.updates.actor :
          /\ a.updates.actor[k] # a.actor0[k]
          /\ a.updates.actor[k] # Last.updates.actor[k]
          /\ Last.updates.actor[k] # a.actor0[k]


\* a step removes the record named n
Removes(n) == HasRecord(flags, n) /\ ~HasRecord(flags', n)

\* the step is the deletion of a revert of n that goes on to return true
SuccessfulRevertOf(n) ==
  /\ pc = "r_delete" /\ call.op = "revert" /\ call.mname = n
  /\ \/ pc' = "r_post"
     \/ pc' = "done" /\ call'.result = "true"
     \/ pc' = "r_loop" /\ obs'.events[Len(obs'.events)] = Event("true", n)

\* C5: in any sequence of mutate / revert calls, the record named n exists
\* (hasMutation(e, n), and n is a key of getMutations(e)) when a non-permanent,
\* non-aborted mutate named n completes, and a record is removed only by a
\* successful revert of its name.
C5_RecordLifetime ==
  /\ []((Done("mutate") /\ ~call.permanent /\ call.result = "info")
        => /\ hasMutation(call.target, call.name)
           /\ HasRecord(getMutations(call.target), call.name)
           /\ Lookup(getMutations(call.target), call.name).updates = call.prepared)
  /\ [][\A n \in Names : Removes(n) => SuccessfulRevertOf(n)]_vars

C5_Witness ==
  /\ Done("revert") /\ call.name = "n2" /\ call.result = "true"
  /\ Len(hist) >= 2 /\ PlainMutate(hist[Len(hist) - 1]) /\ hist[Len(hist) - 1].name = "n1"
  /\ hasMutation(ActorTarget, "n1")
  /\ ~hasMutation(ActorTarget, "n2")

\* the entity shows the field values of u: its actor keys, and its token keys
\* on the token the call wrote
Shows(u, token) ==
  /\ \A k \in DOMAIN u.actor : actorData[k] = u.actor[k]
  /\ token # Null => \A k \in DOMAIN u.token : tokenData[token][k] = u.token[k]

\* u is applied: its field values show, and its embedded part is on top of the
\* items before
Applied(u, token, items0) ==
  /\ Shows(u, token)
  /\ items = ApplyEmbeddedTo(items0, u.embedded)

\* C6: a mutate with options.permanent = true applies its field changes and
\* adds no record: getMutations(e) is the same before and after; a revert by
\* the name given to that call finds only what was stored under that name
\* before (nothing, for a new name: it returns false and changes nothing).
C6_PermanentKeepsNoRecord ==
  /\ (call.op = "mutate" /\ OnEntity /\ call.permanent)
       => getMutations(call.target) = obs.flags0
  /\ (Done("mutate") /\ Normal /\ call.permanent /\ obs.preRes # "false")
       => /\ Applied(call.prepared, call.token, obs.items0)
          /\ call.result = "null"
  /\ (/\ Done("revert") /\ OnEntity /\ hist # << >>
      /\ Last.op = "mutate" /\ Last.permanent /\ call.name = Last.name)
       => /\ obs.flags0 = Last.flags0
          /\ call.mutation = Lookup(Last.flags0, Last.name)
          /\ ~HasRecord(Last.flags0, Last.name) => call.result = "false" /\ WorldAsBefore

C6_Witness ==
  /\ Done("revert") /\ OnEntity /\ hist # << >>
  /\ IsEntity(Last.target) /\ Last.result # "rejected"
  /\ Last.op = "mutate" /\ Last.permanent /\ call.name = Last.name
  /\ ~HasRecord(Last.flags0, Last.name)
  /\ Changes(Last.updates, Last.actor0, Last.token0)
  /\ activeTokens # << >>
  /\ Shows(Last.updates, activeTokens[1])


\* C7: when the pre callback of mutate resolves to exactly false, mutate
\* returns null at once and no entity field, presentation field, embedded
\* collection or stored record has changed: no snapshot, no write, no post.
C7_MutatePreFalseChangesNothing ==
  (call.op = "mutate" /\ obs.preRes = "false")
  => /\ pc = "done"
     /\ call.result = "null"
     /\ WorldAsBefore
     /\ obs.events = <<Event("pre", call.name)>>

C7_Witness ==
  /\ Done("mutate") /\ obs.preRes = "false"
  /\ call.cb = "both" /\ ~call.permanent
  /\ obs.flags0 # << >>
  /\ Changes(call.prepared, actorData, tokenData)

\* C8: when the pre callback of revert(e, n) resolves to exactly false, revert
\* returns false at once, the record n stays stored unchanged, no field is
\* written and the post callback is not invoked.
C8_RevertPreFalseChangesNothing ==
  (call.op = "revert" /\ call.name # Null /\ obs.preRes = "false")
  => /\ pc = "done"
     /\ call.result = "false"
     /\ WorldAsBefore
     /\ Lookup(flags, call.name) # NoRecord
     /\ Lookup(flags, call.name) = call.mutation
     /\ obs.events = <<Event("pre", call.name)>>

C8_Witness ==
  /\ Done("revert") /\ call.name # Null /\ obs.preRes = "false"
  /\ call.cb = "both"
  /\ ~Shows(call.mutation.original, call.token)

\* a completed mutate that went on past its pre callback: the update is
\* applied, the record stored unless permanent, the post callback invoked
MutateWentOn ==
  /\ Applied(call.prepared, call.token, obs.items0)
  /\ call.result = MutateResult
  /\ ~call.permanent => HasRecord(flags, call.name)
  /\ HasPost(call.cb) => obs.events[Len(obs.events)] = Event("post", call.name)

\* a completed revert(e, n) that went on past its pre callback
RevertWentOn ==
  /\ call.result = "true"
  /\ Shows(call.mutation.original, call.token)
  /\ ~HasRecord(flags, call.name)
  /\ HasPost(call.cb) => obs.events[Len(obs.events)] = Event("post", call.name)

\* a completed spawn that went on past its pre callback
SpawnWentOn ==
  /\ Len(sp.result) = sp.duplicates
  /\ Len(placeables) = Len(sp.placeables0) + sp.duplicates
  /\ (HasPost(sp.cb) /\ sp.duplicates > 0) => sp.events[Len(sp.events)] = "post"

\* the spawn found its actor and its position
SpawnPositioned == sp.actor # NoActor /\ ~sp.position.cancelled

\* C9: in mutate, revert and spawn the operation is aborted exactly when its
\* pre callback resolves to false: with a pre callback resolving to undefined,
\* null, 0, the empty string or true, and with no pre callback, the operation
\* continues and its effects are applied.
C9_OnlyExactlyFalseAborts ==
  /\ (Done("mutate") /\ Normal)
       => /\ HasPre(call.cb) <=> obs.preRes \in PreResults
          /\ IF obs.preRes = "false"
               THEN call.result = "null" /\ WorldAsBefore
               ELSE MutateWentOn
  /\ (Done("revert") /\ Normal /\ call.name # Null /\ HasRecord(obs.flags0, call.name))
       => /\ HasPre(call.cb) <=> obs.preRes \in PreResults
          /\ IF obs.preRes = "false"
               THEN call.result = "false" /\ WorldAsBefore
               ELSE RevertWentOn
  /\ (pc = "s_done" /\ SpawnPositioned /\ sp.failAt = 0)
       => /\ HasPre(sp.cb) <=> sp.preRes \in PreResults
          /\ IF sp.preRes = "false"
               THEN sp.result = << >> /\ placeables = sp.placeables0
               ELSE SpawnWentOn

C9_Witness ==
  /\ pc = "s_done" /\ SpawnPositioned /\ sp.failAt = 0
  /\ sp.preRes = "zero"
  /\ sp.duplicates = 2
  /\ SpawnWentOn


IsDeletion(ev) == ev.e = "flag"
IsReturn(ev) == ev.e \in {"true", "false"}
EventNames(events) == [i \in 1..Len(events) |-> events[i].n]

\* the events of one name are not interleaved with those of another
OneAtATime(events) ==
  \A i, j \in 1..Len(events) :
    (i < j /\ events[i].n = events[j].n) => \A m \in i..j : events[m].n = events[i].n

\* the names of the stored records in the order they were applied
OldestFirst(stored) == [i \in 1..Len(stored) |-> stored[i].name]

\* C10: revert(e, null) with no aborting callback reverts every stored record,
\* one at a time in insertion order, each one returning before the next is
\* started; it returns true and leaves getMutations(e) empty.
C10_RevertAllOldestFirst ==
  (/\ Done("revert") /\ Normal /\ call.name = Null
   /\ \A i \in 1..Len(obs.events) : obs.events[i].e # "false")
  => /\ call.result = "true"
     /\ getMutations(call.target) = << >>
     /\ EventNames(SelectSeq(obs.events, IsDeletion)) = OldestFirst(obs.flags0)
     /\ EventNames(SelectSeq(obs.events, IsReturn)) = OldestFirst(obs.flags0)
     /\ OneAtATime(obs.events)
     /\ obs.events # << >> => IsReturn(obs.events[Len(obs.events)])

C10_Witness ==
  /\ Done("revert") /\ Normal /\ call.name = Null /\ call.result = "true"
  /\ Len(obs.flags0) = 2
  /\ obs.flags0[1].name = "n1" /\ obs.flags0[2].name = "n2"
  /\ \E k \in DOMAIN obs.flags0[1].original.actor :
       obs.actor0[k] # obs.flags0[1].original.actor[k]
  /\ obs.events[1] = Event("actor", "n1")
  /\ getMutations(call.target) = << >>


\* the record the mutate in flight has stored
Stored == call.op = "mutate" /\ call.mutationInfo # NoRecord

\* C11: every record stored by mutate has, for every key of updates.actor and
\* of updates.token, an entry in original holding the value the live actor,
\* and the live token this mutate writes, had for that key immediately before
\* the write.
C11_SnapshotOfWrittenState ==
  Stored =>
    /\ \A k \in DOMAIN call.prepared.actor :
         /\ k \in DOMAIN call.mutationInfo.original.actor
         /\ call.mutationInfo.original.actor[k] = obs.actor0[k]
    /\ call.token # Null =>
         \A k \in DOMAIN call.prepared.token :
           /\ k \in DOMAIN call.mutationInfo.original.token
           /\ call.mutationInfo.original.token[k] = obs.token0[call.token][k]

\* C12: mutate called with a target from which no entity resolves (null, or a
\* value that is neither an actor nor a token) reports the error and resolves
\* to null without invoking a callback and without reading or writing any
\* field or stored record; it never rejects.
C12_NoEntityResolvesNull ==
  (Done("mutate") /\ ~IsEntity(call.target))
  => /\ call.result = "null"
     /\ obs.events = <<Event("noActor.error", call.name)>>
     /\ WorldAsBefore

\* the store rejected a sub-operation of the call in flight
Faulted ==
  \E i \in 1..Len(obs.events) :
    obs.events[i].e \in {"actor.error", "token.error", "embedded.error"}

\* the sub-operation part of the update being applied was called for and
\* not rejected
Due(part) ==
  /\ call.fault # part
  /\ \/ part = "actor" /\ WritesActor(call.applying)
     \/ part = "token" /\ WritesToken(call.token, call.applying)
     \/ part = "embedded" /\ DOMAIN call.applying.embedded # {}

\* C13: when the store rejects one of the three sub-operations of applying an
\* update (actor update, token update, embedded create/update), the other
\* two are still performed and the mutate or revert call resolves.
C13_FaultSparesSiblings ==
  (pc = "done" /\ OnEntity /\ ~call.all /\ Faulted)
  => /\ call.result # "rejected"
     /\ \A part \in {"actor", "token", "embedded"} :
          Due(part) => Count(obs.events, part) = 1

\* a spawn in flight or completed whose actor was found
Spawning == sp.op = "spawn" /\ sp.actor # NoActor

\* no token was created and none requested
NothingSpawned ==
  /\ placeables = sp.placeables0
  /\ sp.spawnedTokens = << >>
  /\ \A i \in 1..Len(sp.events) : sp.events[i] \in {"pre", "post"}

\* C14: a spawn whose updates supply both x and y never shows the crosshairs
\* and uses (x, y) as its position; otherwise it shows the crosshairs exactly
\* once, with options.crosshairs, and when the selection is cancelled it
\* resolves to an empty array with no token created.
C14_OriginOrSelector ==
  Spawning =>
    IF "x" \in DOMAIN sp.updates /\ "y" \in DOMAIN sp.updates
      THEN /\ sp.shown = << >>
           /\ sp.position = [x |-> sp.updates.x, y |-> sp.updates.y,
                             cancelled |-> FALSE]
      ELSE /\ sp.shown = <<sp.crosshairs>>
           /\ sp.position.cancelled
                => /\ pc = "s_done" /\ sp.outcome = "resolved"
                   /\ sp.result = << >>
                   /\ NothingSpawned /\ sp.events = << >>

C14_Witness ==
  /\ Spawning /\ pc = "s_done"
  /\ sp.position.cancelled
  /\ sp.shown = <<[size |-> 2]>>
  /\ sp.duplicates = 2 /\ sp.cb = "both"

\* positions of the event e in the log of the spawn
SpawnAtEvents(e) == {i \in 1..Len(sp.events) : sp.events[i] = e}

CreateEvents ==
  {i \in 1..Len(sp.events) :
     sp.events[i] \in {"create", "create.empty", "create.rejected"}}

\* the spawn got its position and went on to the callbacks and the loop
Positioned == Spawning /\ pc # "s_select" /\ ~sp.position.cancelled

\* C15: when a pre callback is supplied it is called exactly once, before any
\* token is created, and a result of exactly false creates nothing and
\* returns an empty array; when a post callback is supplied it is called
\* exactly once, after the last creation, and only if a token was created.
C15_PreOncePostOnce ==
  Spawning =>
    /\ Cardinality(SpawnAtEvents("pre")) <= 1
    /\ SpawnAtEvents("pre") # {} => HasPre(sp.cb)
    /\ HasPre(sp.cb) /\ Positioned /\ pc # "s_pre" => SpawnAtEvents("pre") = {1}
    /\ IsExactlyFalse(sp.preRes)
         => /\ pc = "s_done" /\ sp.outcome = "resolved"
            /\ sp.result = << >>
            /\ NothingSpawned
    /\ Cardinality(SpawnAtEvents("post")) <= 1
    /\ SpawnAtEvents("post") # {}
         => /\ HasPost(sp.cb)
            /\ SpawnAtEvents("post") = {Len(sp.events)}
            /\ sp.i = sp.duplicates
            /\ Len(sp.spawnedTokens) >= 1
    /\ pc = "s_done" /\ sp.outcome = "resolved" /\ HasPost(sp.cb)
         /\ Len(sp.result) >= 1
         => Cardinality(SpawnAtEvents("post")) = 1

C15_Witness ==
  /\ Spawning /\ pc = "s_done"
  /\ sp.cb = "both" /\ sp.duplicates = 2
  /\ sp.events = <<"pre", "create", "create", "post">>
  /\ Len(sp.result) = 2

\* the tokens of the scene once the first n creation requests of the spawn
\* were answered
SceneAfter(n) ==
  LET made == n - (IF sp.failAt \in 1..n THEN 1 ELSE 0)
  IN SubSeq(placeables, 1, Len(sp.placeables0) + made)

\* C16: with collision avoidance on, the first copy is placed at the
\* position of the spawn without a collision test, and the collision test
\* for copy i > 1 runs after the creation of copies 1..i-1 has completed and
\* sees every one of them.
C16_QuerySeesEarlierCopies ==
  Spawning /\ sp.collision =>
    /\ \A k \in 1..Len(sp.queries) :
         LET q == sp.queries[k]
         IN /\ q.i = k + 1
            /\ q.seen = SceneAfter(q.i - 1)
            /\ Len(q.seen) >= Len(sp.placeables0) + (q.i - 1)
                               - (IF sp.failAt = 0 THEN 0 ELSE 1)
    /\ Len(sp.queries) = (IF sp.i = 0 THEN 0 ELSE sp.i - 1)
    /\ sp.failAt # 1 /\ Len(sp.spawnedTokens) >= 1
         => /\ sp.spawnedTokens[1].x = sp.position.x
            /\ sp.spawnedTokens[1].y = sp.position.y

C16_Witness ==
  /\ Spawning /\ sp.collision /\ pc = "s_done"
  /\ sp.failAt = 0
  /\ Len(sp.queries) = 2
  /\ Len(sp.queries[2].seen) = Len(sp.placeables0) + 2
  /\ sp.placeables0 # << >>

\* the footprints of two created tokens share a region of the scene
Overlap(t, u) ==
  /\ t.x < u.x + u.width * GridSize /\ u.x < t.x + t.width * GridSize
  /\ t.y < u.y + u.height * GridSize /\ u.y < t.y + t.height * GridSize

C18_FailedCopyIsSkipped ==
  Spawning /\ pc = "s_done" /\ sp.failAt # 0 /\ sp.i >= sp.failAt
  => /\ sp.outcome = "resolved"
     /\ sp.i = sp.duplicates
     /\ Len(sp.result) = sp.duplicates - 1
     /\ sp.result = SubSeq(sp.spawnedTokens, 1, sp.duplicates - 1)
     /\ \A k \in 1..Len(sp.result) :
          placeables[Len(sp.placeables0) + k].id = sp.result[k]._id

\* the tokens dismiss was given, and the scene ids of those tokens: every
\* argument of DismissArgs names a prefix of the tokens the spawn returned
Given == IF sp.dismissed.isArray THEN sp.dismissed.tokens ELSE <<sp.dismissed.token>>

GivenIds == [i \in 1..Len(Given) |-> sp.result[i]._id]

\* C19: dismiss, given one token or an array of tokens, issues exactly one
\* deletion request to the scene carrying the ids of all of them, and issues
\* no request when there is no id.
C19_OneBatchedDeletion ==
  pc = "d_done" =>
    IF Len(GivenIds) = 0
      THEN sp.deleted = << >>
      ELSE /\ Len(sp.deleted) = 1
           /\ sp.deleted[1] = GivenIds
           /\ \A k \in 1..Len(placeables) :
                \A i \in 1..Len(GivenIds) : placeables[k].id # GivenIds[i]

C19_Witness ==
  /\ pc = "d_done"
  /\ sp.dismissed.isArray
  /\ Len(Given) = 3 /\ Given[1].kind = "data"
  /\ sp.deleted = <<GivenIds>>
  /\ Len(placeables) = Len(sp.placeables0) /\ sp.placeables0 # << >>
\* C20: the placement search called on a scene without tokens returns the
\* position it was given, unchanged.
C20_EmptySceneKeepsOrigin ==
  pc = "f_done" /\ sp.placeables0 = << >> => sp.found = sp.position

\* the placement search has returned
Searched == pc = "f_done"

\* width and height of the token in cells, 1 when tokenData does not say
CellsWide == IF "width" \in DOMAIN sp.tokenData THEN sp.tokenData.width ELSE 1

CellsHigh == IF "height" \in DOMAIN sp.tokenData THEN sp.tokenData.height ELSE 1

\* the cells of ring r around the position of the search, as offsets
RingCells(r) ==
  {c \in ((0 - r)..r) \X ((0 - r)..r) :
     \/ c[1] = r \/ c[1] = 0 - r \/ c[2] = r \/ c[2] = 0 - r}

CellPoint(c) ==
  [x |-> sp.position.x + c[1] * GridSize, y |-> sp.position.y + c[2] * GridSize]

\* the token anchored at point p meets a token of the scene, sharing an edge
\* or a corner included
Meets(p) ==
  \E i \in 1..Len(sp.placeables0) :
    LET o == sp.placeables0[i]
    IN /\ p.x <= o.x + o.w /\ o.x <= p.x + CellsWide * GridSize
       /\ p.y <= o.y + o.h /\ o.y <= p.y + CellsHigh * GridSize

FreeCells(r) == {c \in RingCells(r) : ~Meets(CellPoint(c))}

\* the rings the search looks at
SearchedRings == 1..(MaxOffset - 1)

FoundPoint == [x |-> sp.found.x, y |-> sp.found.y]

\* c comes before d in the scan: increasing dx, then increasing dy
ScansBefore(c, d) == c[1] < d[1] \/ (c[1] = d[1] /\ c[2] <= d[2])

\* C21: when a cell of the searched rings is free, the placement search
\* returns the free cell of the smallest ring r >= 1 and, within that ring,
\* the first in scan order (increasing dx, then increasing dy); the token
\* anchored there meets no token of the scene, not even at an edge.
C21_NearestFreeCellInScanOrder ==
  Searched /\ (\E r \in SearchedRings : FreeCells(r) # {}) =>
    \E r \in SearchedRings :
      /\ \A q \in 1..(r - 1) : FreeCells(q) = {}
      /\ \E c \in FreeCells(r) :
           /\ \A d \in FreeCells(r) : ScansBefore(c, d)
           /\ FoundPoint = CellPoint(c)
           /\ ~Meets(FoundPoint)

\* ring 1 is full and the cell returned in ring 2 or further is not the
\* first boundary cell of its ring
C21_Witness ==
  /\ Searched
  /\ FreeCells(1) = {} /\ FreeCells(2) # {}
  /\ FoundPoint \in {CellPoint(c) : c \in FreeCells(2)}
  /\ FoundPoint # CellPoint(<<0 - 2, 0 - 2>>)
  /\ Len(sp.placeables0) >= 2

\* C22: the placement search looks at rings 1 to 9 only; when every cell it
\* looks at collides it returns the position it was given, so its result is
\* either that position or a free cell of a ring between 1 and 9.
C22_RingCap ==
  Searched =>
    /\ \/ FoundPoint = CellPoint(<<0, 0>>)
       \/ \E r \in SearchedRings : FoundPoint \in {CellPoint(c) : c \in FreeCells(r)}
    /\ (\A r \in SearchedRings : FreeCells(r) = {})
         => FoundPoint = CellPoint(<<0, 0>>)

\* every searched cell collides while ring 10 has a free cell
C22_Witness ==
  /\ Searched
  /\ \A r \in SearchedRings : FreeCells(r) = {}
  /\ FreeCells(MaxOffset) # {}
  /\ FoundPoint = CellPoint(<<0, 0>>)

\* the promise show() returned is settled
Settled == xh.promise = "fulfilled"

\* the terminal handlers the instance has run, by the step each ends with
Captured == {i \in 1..Len(xh.trace) : xh.trace[i] = "capture"}

\* C23: every value show() resolves to is either {x, y, cancelled: false}
\* with x and y a position, after a pointerdown, or {x: null, y: null,
\* cancelled: true}, after a rightdown; cancelled = true never comes with a
\* position and cancelled = false never without one.
C23_ResultShape ==
  Settled =>
    /\ xh.result.cancelled
         => /\ xh.result.x = JsNull /\ xh.result.y = JsNull
            /\ Captured = {} /\ xh.cancelled
    /\ ~xh.result.cancelled
         => /\ xh.result.x # JsNull /\ xh.result.y # JsNull
            /\ [x |-> xh.result.x, y |-> xh.result.y] = xh.position
            /\ Captured # {} /\ ~xh.cancelled

C23_Witness ==
  /\ Settled /\ xh.result.cancelled
  /\ xh.marker.moved
  /\ xh.last = "rightdown"

\* the places of a step in the trace of the instance
StepsOf(name) == {i \in 1..Len(xh.trace) : xh.trace[i] = name}

\* every step named a comes before every step named b
Precedes(a, b) == \A i \in StepsOf(a), j \in StepsOf(b) : i < j

\* C24: on either terminal transition the three listeners are removed and
\* the template destroyed before the position is taken and before show()
\* resolves; over a whole show() the template is destroyed exactly once and
\* the result delivered exactly once, whatever events follow.
C24_CleanupBeforeResolve ==
  Settled =>
    /\ Cardinality(StepsOf("off")) = 1
    /\ Cardinality(StepsOf("destroy")) = 1
    /\ Cardinality(StepsOf("resolve")) = 1
    /\ Precedes("off", "capture") /\ Precedes("destroy", "capture")
    /\ Precedes("off", "resolve") /\ Precedes("destroy", "resolve")
    /\ Precedes("capture", "resolve")
    /\ xh.listeners = {} /\ ~xh.template.exists
    /\ xh.destroyed = 1 /\ xh.resolves = 1 /\ xh.delivered = 1

\* a selection by pointerdown, and two more presses after it
C24_Witness ==
  /\ Settled /\ ~xh.result.cancelled
  /\ xh.trace = <<"off", "destroy", "capture", "resolve">>
  /\ xh.dispatched = 3 /\ xh.last = "rightdown"
  /\ ~xh.marker.moved

\* show() resolved to a position
Selected == Settled /\ ~xh.result.cancelled

\* the centre of the grid cell the coordinate v lies in
CellCentre(v) == v - (v % GridSize) + GridSize \div 2

\* the position is snapped to the grid
Snaps == ~xh.config.lockPosition /\ xh.gridType # 0

\* C25 as stated: after moves of the pointer and a pointerdown, show()
\* resolves to the last snapped position of a move.
C25_ResolvesToLastMove ==
  Selected /\ xh.marker.moved
    => /\ xh.result.x = Number(xh.marker.x)
       /\ xh.result.y = Number(xh.marker.y)

\* C25 (amended): after any moves of the pointer and a pointerdown, show()
\* resolves to {x, y, cancelled: false} with (x, y) the position of the
\* pointerdown event, snapped to the grid unless config.lockPosition is set
\* or the scene has no grid; this is the last snapped position of a move
\* when the pointerdown comes at the position of the last move.
C25_ResolvesToPressPosition ==
  Selected =>
    /\ xh.result.x = Number(IF Snaps THEN CellCentre(xh.pressed.x)
                            ELSE xh.pressed.x)
    /\ xh.result.y = Number(IF Snaps THEN CellCentre(xh.pressed.y)
                            ELSE xh.pressed.y)
    /\ xh.marker.moved /\ xh.hover = xh.pressed
         => /\ xh.result.x = Number(xh.marker.x)
            /\ xh.result.y = Number(xh.marker.y)

\* two moves, then a pointerdown where the last move ended, off the centre of
\* its cell
C25_Witness ==
  /\ Selected /\ Snaps
  /\ xh.moves = 2 /\ xh.hover = xh.pressed
  /\ xh.pressed = [x |-> 120, y |-> 130]
  /\ xh.result.x = Number(150) /\ xh.result.y = Number(150)

\* C26: with config.rememberControlled, after the cleanup the controlled
\* tokens are exactly those that were controlled when the crosshairs were
\* activated and still exist, also when none was controlled then and whatever
\* was controlled while the crosshairs were shown.
C26_ControlledRestored ==
  Settled /\ xh.config.rememberControlled
    => xh.canvasControlled = xh.controlled0 \cap CanvasTokenIds

\* the state of the selector an instance is in
Phase(self) ==
  IF self.promise = "none" THEN "Idle"
  ELSE IF self.promise = "pending" THEN "Active"
  ELSE IF self.result.cancelled THEN "Cancelled"
  ELSE "Resolved"

\* the step dispatches the event of that name
Emits(name) == xh'.dispatched = xh.dispatched + 1 /\ xh'.last = name

\* C27: while the selector is Active a pointermove only moves the template
\* and never resolves show(); the selector leaves Active only by a
\* pointerdown, to Resolved, or a rightdown, to Cancelled, and Resolved and
\* Cancelled are terminal.
C27_SelectorStateMachine ==
  [][/\ Phase(xh) = "Active" /\ Emits("pointermove")
          => /\ Phase(xh') = "Active"
             /\ xh'.template.exists
             /\ xh' = [xh EXCEPT !.template = xh'.template,
                                 !.marker = xh'.marker, !.hover = xh'.hover,
                                 !.moves = xh'.moves,
                                 !.dispatched = xh'.dispatched,
                                 !.last = xh'.last]
     /\ Phase(xh) = "Active" /\ Phase(xh') # "Active"
          => \/ Emits("pointerdown") /\ Phase(xh') = "Resolved"
             \/ Emits("rightdown") /\ Phase(xh') = "Cancelled"
     /\ Phase(xh) \in {"Resolved", "Cancelled"}
          => Phase(xh') = Phase(xh) /\ xh'.result = xh.result
    ]_vars

\* the selector is still Active after two moves of the pointer
C27_Witness ==
  /\ Phase(xh) = "Active"
  /\ xh.moves = 2 /\ xh.last = "pointermove"
  /\ xh.template.exists /\ xh.template.x = xh.marker.x

\* the places of the event e in what the call in flight was seen to do
EventsOf(e) == {i \in 1..Len(obs.events) : obs.events[i].e = e}

\* every event named a comes before every event named b
Before(a, b) == \A i \in EventsOf(a), j \in EventsOf(b) : i < j

\* the writes of fields a mutate issues, those the store rejected included
WriteEvents == {"actor", "token", "embedded"}

WriteErrors == {"actor.error", "token.error", "embedded.error"}

\* C28: within one mutate call the pre callback completes first, then the
\* original values are read and the record is stored, then the writes of
\* fields are issued, and the post callback is called with the record only
\* after every write of the call has completed successfully.
C28_MutateStepOrder ==
  call.op = "mutate" /\ OnEntity =>
    /\ \A e \in {"flag", "post"} \cup WriteEvents \cup WriteErrors : Before("pre", e)
    /\ \A e \in WriteEvents \cup WriteErrors : Before("flag", e)
    /\ \A e \in WriteEvents \cup WriteErrors : Before(e, "post")
    /\ EventsOf("post") # {}
         => /\ \A e \in WriteErrors : EventsOf(e) = {}
            /\ WritesActor(call.prepared) => Cardinality(EventsOf("actor")) = 1
            /\ WritesToken(call.token, call.prepared)
                 => Cardinality(EventsOf("token")) = 1
            /\ obs.postArg = call.mutationInfo

\* the top-level keys _prepareUpdates gives a meaning of their own
Reserved == {"token", "actor", "embedded", "actorData"}

\* C29: the prepared update has exactly the three sub-trees actor, token and
\* embedded, and every top-level key of the raw update that is not reserved
\* is in the actor sub-tree with its value, whatever the order of the keys
\* and whether or not the raw update has an actor sub-tree too.
C29_FlatKeysReachActor ==
  pc = "p_done" =>
    /\ DOMAIN call.prepared = {"actor", "token", "embedded"}
    /\ \A i \in 1..Len(call.raw) :
         call.raw[i].k \notin Reserved
           => /\ call.raw[i].k \in DOMAIN call.prepared.actor
              /\ call.prepared.actor[call.raw[i].k] = call.raw[i].v

\* the token data of copy i is at the position spawn resolved for it: the
\* position of the spawn for the first copy and for every copy without
\* collision avoidance
AtResolvedPosition(i) ==
  (i = 1 /\ sp.failAt # 1) \/ ~sp.collision
    => /\ sp.spawnedTokens[i].x = sp.position.x
       /\ sp.spawnedTokens[i].y = sp.position.y

\* C30: every token data spawn passes to the scene is marked unlinked
\* (actorLink = false) and has x and y equal to the position resolved for
\* that copy, whatever keys the updates of the caller contain.
C30_PayloadUnlinkedAtPosition ==
  Spawning =>
    \A i \in 1..Len(sp.spawnedTokens) :
      /\ sp.spawnedTokens[i].actorLink = FALSE
      /\ AtResolvedPosition(i)


\* the last three calls are mutate n, mutate n again, revert n
Renewed ==
  /\ Done("revert") /\ Len(hist) >= 2
  /\ LET a == hist[Len(hist) - 1]
     IN /\ PlainMutate(a) /\ PlainMutate(Last) /\ a.name = Last.name
        /\ HasRecord(Last.flags0, Last.name)
        /\ PlainRevert(Summary, Last.name)

\* C32: a mutate with a name that already has a stored record replaces that
\* record: the number of records is unchanged, the stored original holds the
\* values read at the second mutate, and a later revert(e, n) sets the
\* fields the second mutate touched to their values after the first mutate.
C32_SameNameReplacesRecord ==
  Renewed
  => LET record == Lookup(obs.flags0, Last.name)
     IN /\ Len(obs.flags0) = Len(Last.flags0)
        /\ RecordNames(obs.flags0) = RecordNames(Last.flags0)
        /\ record.updates = Last.updates
        /\ \A k \in DOMAIN Last.updates.actor :
             record.original.actor[k] = Last.actor0[k]
        /\ activeTokens # << >> =>
             \A k \in DOMAIN Last.updates.token :
               record.original.token[k] = Last.token0[activeTokens[1]][k]
        /\ call.result = "true"
        /\ FieldsAsIn(Last.updates, Last.actor0, Last.token0)
        /\ ~HasRecord(getMutations(ActorTarget), Last.name)

C32_Witness ==
  /\ Renewed
  /\ LET a == hist[Len(hist) - 1]
     IN \E k \in DOMAIN a.updates.actor \cap DOMAIN Last.updates.actor :
          /\ a.updates.actor[k] # a.actor0[k]
          /\ Last.updates.actor[k] # a.updates.actor[k]
          /\ actorData[k] = a.updates.actor[k]
          /\ actorData[k] # a.actor0[k]


\* the last three calls are mutate n1, mutate n2, revert(e, null), and no
\* record was stored before n1
OverlappedThenAll ==
  /\ Done("revert") /\ Len(hist) >= 2
  /\ LET a == hist[Len(hist) - 1]
     IN /\ PlainMutate(a) /\ PlainMutate(Last) /\ a.name # Last.name
        /\ a.flags0 = << >>
        /\ PlainRevert(Summary, Null)

\* C33: after mutate n1 and then mutate n2 that both write key k,
\* revert(e, null) reverts n1 and then n2: no record stays stored and k is
\* left at the value n1 wrote, which is the value n2 saved.
C33_RevertAllKeepsFirstWrite ==
  OverlappedThenAll
  => LET a == hist[Len(hist) - 1]
     IN /\ call.result = "true"
        /\ getMutations(ActorTarget) = << >>
        /\ EventNames(SelectSeq(obs.events, IsReturn)) = <<a.name, Last.name>>
        /\ \A k \in DOMAIN a.updates.actor \cap DOMAIN Last.updates.actor :
             /\ actorData[k] = a.updates.actor[k]
             /\ actorData[k] = obs.flags0[2].original.actor[k]
        /\ activeTokens # << >> =>
             \A k \in DOMAIN a.updates.token \cap DOMAIN Last.updates.token :
               /\ tokenData[activeTokens[1]][k] = a.updates.token[k]
               /\ tokenData[activeTokens[1]][k] = obs.flags0[2].original.token[k]

C33_Witness ==
  /\ OverlappedThenAll
  /\ LET a == hist[Len(hist) - 1]
     IN \E k \in DOMAIN a.updates.actor \cap DOMAIN Last.updates.actor :
          /\ a.updates.actor[k] # a.actor0[k]
          /\ a.updates.actor[k] # Last.updates.actor[k]
          /\ actorData[k] # a.actor0[k]


\* a completed revert(e, n) of a stored record that was not aborted and whose
\* write of this part of record.original the store rejected
RejectedRevert(part) ==
  /\ Done("revert") /\ OnEntity /\ call.name # Null
  /\ HasRecord(obs.flags0, call.name) /\ obs.preRes # "false"
  /\ call.fault = part
  /\ \/ part = "actor" /\ WritesActor(call.mutation.original)
     \/ part = "token" /\ WritesToken(call.token, call.mutation.original)

\* C34: when the store rejects the actor update or the token update by which
\* revert(e, n) re-applies record.original, the rejection is caught: revert
\* still deletes record n and returns true, the fields of the rejected write
\* keep the values they had, and no record of n is left.
C34_RejectedRevertStillDeletes ==
  \A part \in {"actor", "token"} :
    RejectedRevert(part)
    => /\ call.result = "true"
       /\ flags = DeleteRecord(obs.flags0, call.name)
       /\ ~HasRecord(getMutations(call.target), call.name)
       /\ EventsOf(part) = {}
       /\ Cardinality(EventsOf(IF part = "actor" THEN "actor.error" ELSE "token.error")) = 1
       /\ part = "actor" => actorData = obs.actor0
       /\ part = "token" => tokenData = obs.token0

C34_Witness ==
  /\ RejectedRevert("actor") /\ hist # << >>
  /\ PlainMutate(Last) /\ Last.name = call.name
  /\ \E k \in DOMAIN call.mutation.original.actor :
       /\ call.mutation.original.actor[k] = Last.actor0[k]
       /\ actorData[k] = Last.updates.actor[k]
       /\ actorData[k] # Last.actor0[k]
  /\ getMutations(call.target) = << >>


\* C36: the original.embedded part of every stored record is empty, so a
\* revert performs no embedded create or update, rejected or not, and leaves
\* the embedded documents of the actor as they were when it was called.
C36_RevertLeavesEmbedded ==
  /\ \A i \in 1..Len(flags) : flags[i].original.embedded = EmptyObj
  /\ (call.op = "revert" /\ OnEntity)
       => /\ items = obs.items0
          /\ EventsOf("embedded") = {}
          /\ EventsOf("embedded.error") = {}
          /\ call.result # "rejected"

C36_Witness ==
  /\ Done("revert") /\ OnEntity /\ hist # << >>
  /\ PlainMutate(Last) /\ PlainRevert(Summary, Last.name)
  /\ DOMAIN Last.updates.embedded # {}
  /\ Lookup(obs.flags0, Last.name).updates.embedded = Last.updates.embedded
  /\ call.result = "true"
  /\ items # <<1>>
  /\ items = obs.items0


\* C37: the token whose values a record saves is the token the mutate
\* writes and a revert on the same target restores, also when the actor has
\* several active tokens and the target is one that is not the first.
C37_SnapshotOfWrittenToken ==
  (Stored /\ WritesToken(call.token, call.prepared))
  => /\ SnapshotToken = call.token
     /\ _getToken(call.target) = SnapshotToken


\* both invocations of show() are waiting for the user
BothActive == Phase(xh) = "Active" /\ Phase(xh2) = "Active"

\* the step took the instance from Active to the phase, through one cleanup
\* that removed its three listeners and destroyed its template, once
Ends(self, after, phase) ==
  /\ Phase(after) = phase
  /\ after.listeners = {} /\ ~after.template.exists
  /\ after.destroyed = 1 /\ after.resolves = 1 /\ after.delivered = 1
  /\ Len(SelectSeq(after.trace, LAMBDA name : name = "off")) = 1
  /\ Len(SelectSeq(after.trace, LAMBDA name : name = "destroy")) = 1

\* the step leaves the instance as it is but for the count of the events and
\* the canvas
Untouched(self, after) ==
  after = [self EXCEPT !.dispatched = after.dispatched, !.last = after.last,
                       !.canvasControlled = after.canvasControlled]

\* an invocation that has ended is not touched by the cleanup of the other,
\* and no instance destroys a template or resolves twice
OwnOnly ==
  /\ Phase(xh) \in {"Resolved", "Cancelled"} => Untouched(xh, xh')
  /\ Phase(xh2) \in {"Resolved", "Cancelled"} => Untouched(xh2, xh2')
  /\ xh'.destroyed <= 1 /\ xh2'.destroyed <= 1
  /\ xh'.resolves <= 1 /\ xh2'.resolves <= 1

\* C38 as stated: when two show() invocations are Active at the same time,
\* one pointerdown resolves both with the same position and one rightdown
\* cancels both; each removes only its own listeners and destroys only its
\* own template, exactly once.
C38_OnePressSamePosition ==
  [][/\ BothActive /\ Emits("pointerdown")
          => /\ Ends(xh, xh', "Resolved") /\ Ends(xh2, xh2', "Resolved")
             /\ xh'.result = xh2'.result
     /\ BothActive /\ Emits("rightdown")
          => Ends(xh, xh', "Cancelled") /\ Ends(xh2, xh2', "Cancelled")
     /\ OwnOnly]_vars

\* the position of the press as the instance reports it
Reported(self, event) ==
  [x |-> Number(_getMousePosition(self, event).x),
   y |-> Number(_getMousePosition(self, event).y),
   cancelled |-> FALSE]

\* C38 (amended): when two Crosshairs.show(config) invocations are Active at
\* the same time, one pointerdown resolves both, each with the position of
\* that press as its own configuration snaps it (the same position when both
\* have the same lockPosition or the scene has no grid), and one rightdown
\* cancels both; each removes only its own listeners and destroys only its
\* own template, exactly once.
C38_OnePressEndsBoth ==
  [][/\ BothActive /\ Emits("pointerdown")
          => /\ Ends(xh, xh', "Resolved") /\ Ends(xh2, xh2', "Resolved")
             /\ xh'.pressed = xh2'.pressed
             /\ xh'.result = Reported(xh, xh'.pressed)
             /\ xh2'.result = Reported(xh2, xh'.pressed)
             /\ (xh.config.lockPosition = xh2.config.lockPosition \/ xh.gridType = 0)
                  => xh'.result = xh2'.result
     /\ BothActive /\ Emits("rightdown")
          => Ends(xh, xh', "Cancelled") /\ Ends(xh2, xh2', "Cancelled")
     /\ OwnOnly]_vars

\* one press off the centre of its cell resolved both, the first snapped and
\* the second, with lockPosition, not
C38_Witness ==
  /\ Phase(xh) = "Resolved" /\ Phase(xh2) = "Resolved"
  /\ xh.last = "pointerdown" /\ xh2.dispatched = 1
  /\ ~xh.config.lockPosition /\ xh2.config.lockPosition /\ xh.gridType = 1
  /\ xh.pressed = [x |-> 120, y |-> 130] /\ xh2.pressed = xh.pressed
  /\ xh.result.x = Number(150) /\ xh2.result.x = Number(120)
  /\ xh.destroyed = 1 /\ xh2.destroyed = 1


\* the places in what the revert in flight was seen to do where a callback
\* made this call of the mutator
Hooked(e, n) == {i \in 1..Len(obs.events) : obs.events[i] = Event(e, n)}

\* the place in what revert(e, null) was seen to do where the revert of the
\* name n returned, 0 when it was not attempted
ReturnOf(n) ==
  LET places == {i \in 1..Len(obs.events) :
                   IsReturn(obs.events[i]) /\ obs.events[i].n = n}
  IN IF places = {} THEN 0 ELSE CHOOSE i \in places : \A j \in places : i <= j

\* a callback removed the record of n before the revert of n was started, and
\* none stored it again before
RemovedMeanwhile(n) ==
  \E i \in Hooked("hook.revert", n) :
    /\ i < ReturnOf(n)
    /\ \A j \in Hooked("hook.mutate", n) : j < i \/ ReturnOf(n) < j

\* what the revert of the name n itself did: callbacks, writes, deletion
EffectsOf(n) ==
  {i \in 1..Len(obs.events) :
     /\ obs.events[i].n = n
     /\ obs.events[i].e \in {"pre", "post", "flag"} \cup WriteEvents \cup WriteErrors}

\* C31: revert(e, null) attempts exactly the names that were stored when it
\* was called, in insertion order; a name whose record a callback removed in
\* the meantime is skipped with no side effects, a record a callback added
\* in the meantime is not reverted, and the call returns true.
C31_RevertAllUsesNamesAtCall ==
  (Done("revert") /\ Normal /\ call.all)
  => /\ call.result = "true"
     /\ EventNames(SelectSeq(obs.events, IsReturn)) = OldestFirst(obs.flags0)
     /\ \A n \in Names :
          RemovedMeanwhile(n)
          => /\ obs.events[ReturnOf(n)] = Event("false", n)
             /\ EffectsOf(n) = {}

\* while revert(e, n1) was suspended in its pre callback, after it had read
\* the stored mapping and before it wrote it back, a mutate stored a record
\* named n, which no call reverted since
StoredWhileSuspended(n) ==
  /\ Done("revert") /\ Normal /\ ~call.all /\ call.result = "true"
  /\ n # call.name
  /\ \E i \in Hooked("hook.mutate", n) :
       /\ \A j \in EventsOf("flag") : i < j
       /\ \A j \in Hooked("hook.revert", n) : j < i

\* C35: a record persisted by a mutate with another name that runs while
\* revert(e, n1) is suspended between reading the stored mapping and writing
\* it back is still in getMutations(e) after the revert completes.
C35_InterleavedRecordSurvives ==
  \A n \in Names :
    (StoredWhileSuspended(n) /\ EventsOf("flag") # {})
    => HasRecord(getMutations(call.target), n)

=============================================================================
